---- MODULE Spec2Model ----
(***************************************************************************)
(* Verification model of the multi-source news aggregator: the article     *)
(* grouper (services/articleGrouper), the synthesis of a group             *)
(* (services/llmSummarizer), the /aggregate route with the provider        *)
(* clients and the normalization of their records (services/normalize),    *)
(* and the location service of the browser.                                *)
(*                                                                         *)
(* Text is modelled character by character: a JavaScript string is a       *)
(* sequence of one-character strings, so that lengths, substrings, regular *)
(* expression matches and case conversion are computed as the code         *)
(* computes them.  undefined and '' are both the empty sequence (the code  *)
(* only ever tests them for truthiness).                                   *)
(***************************************************************************)
EXTENDS Integers, Sequences, FiniteSets, TLC

VARIABLES
  (* ---- one call of groupSimilarArticles ---- *)
  articles,             \* the input pool: a sequence of article ids
  similarityThreshold,  \* in percent: 30 is 0.3
  i,                    \* loop index of the pass (0-based, as in the code)
  groups,               \* sequence of [groupId, articles: pool positions (1-based)]
  used,                 \* the Set of placed loop indices
  gpc,                  \* position in groupSimilarArticles
  (* ---- one call of calculateSimilarity ---- *)
  article1, article2,   \* the arguments: article ids
  score,                \* the returned score, a fraction <<numerator, denominator>>
  cpc,                  \* position of the call
  (* ---- one call of generateNeutralTitle ---- *)
  title, description, summary,  \* the arguments
  neutralTitle,                 \* the returned title
  tpc,                          \* position of the call
  (* ---- one call of summarizeArticleGroup ---- *)
  callGroup,            \* the argument: [groupId, articles: article ids]
  hasApiKey,            \* OPENAI_API_KEY is configured
  answer,               \* what the generation service answers: [kind, parsed]
  promise,              \* what the call settled to: [status, value]
  spc,                  \* position of the call
  (* ---- one GET /aggregate request ---- *)
  page,                 \* req.query.page: a text, << >> when absent
  pageNum,              \* the parsed page: a number that may be NaN
  providers,            \* the articles each provider has: sequences of ids
  outcomes,             \* what happens to the request to each provider
  fetches,              \* the promises of the three fetch functions
  warnings,             \* the warnings collected so far
  allArticles,          \* the pool
  allGroups,            \* what groupSimilarArticles returned for the pool
  filteredGroups,       \* the groups that passed the filter, most recent first
  batchIndex,           \* the loop index i of the batches (0-based)
  summaries,            \* the promises of the batch in flight
  summarizedGroups,     \* the groups of the batches collected so far
  response,             \* what res.json was given
  rpc,                  \* position of the handler
  (* ---- one call of normalizeArticles ---- *)
  rawArticles,          \* the argument articles: [isArray, records]
  rawSource,            \* the argument source
  normalized,           \* what the call returned, or that it threw
  npc,                  \* position of the call
  (* ---- the location service of the browser ---- *)
  storage,              \* localStorage: the three keys of the service
  lookup,               \* the geolocation lookup of the page
  loads,                \* the pages loaded so far
  geolocation           \* navigator.geolocation exists

(***************************************************************************)
(* Characters and JavaScript string methods                                *)
(***************************************************************************)
UpperLetters == <<"A","B","C","D","E","F","G","H","I","J","K","L","M",
                  "N","O","P","Q","R","S","T","U","V","W","X","Y","Z">>
LowerLetters == <<"a","b","c","d","e","f","g","h","i","j","k","l","m",
                  "n","o","p","q","r","s","t","u","v","w","x","y","z">>
Digits == {"0","1","2","3","4","5","6","7","8","9"}

Range(f) == {f[x] : x \in DOMAIN f}

IsUpper(c) == c \in Range(UpperLetters)
IsLower(c) == c \in Range(LowerLetters)
IsLetter(c) == IsUpper(c) \/ IsLower(c)
IsDigit(c) == c \in Digits
\* \s of a regular expression, and the characters trim() removes
IsSpace(c) == c = " "
\* \w of a regular expression
IsWordChar(c) == IsLetter(c) \/ IsDigit(c) \/ c = "_"
\* [.!?]
IsTerminator(c) == c \in {".", "!", "?"}

LowerChar(c) ==
  IF IsUpper(c) THEN LowerLetters[CHOOSE k \in 1..26 : UpperLetters[k] = c] ELSE c
UpperChar(c) ==
  IF IsLower(c) THEN UpperLetters[CHOOSE k \in 1..26 : LowerLetters[k] = c] ELSE c

Min(a, b) == IF a <= b THEN a ELSE b
Max(a, b) == IF a >= b THEN a ELSE b

\* String.prototype.toLowerCase
toLowerCase(s) == [k \in 1..Len(s) |-> LowerChar(s[k])]

\* String.prototype.substring(a, b) for 0 <= a <= b (0-based, b exclusive)
substring(s, a, b) == SubSeq(s, Min(a, Len(s)) + 1, Min(b, Len(s)))

\* String.prototype.slice(a) for a >= 0
sliceFrom(s, a) == SubSeq(s, Min(a, Len(s)) + 1, Len(s))

\* String.prototype.trim
trim(s) ==
  LET keep == {k \in 1..Len(s) : ~IsSpace(s[k])}
  IN IF keep = {} THEN << >>
     ELSE SubSeq(s, CHOOSE k \in keep : \A m \in keep : k <= m,
                    CHOOSE k \in keep : \A m \in keep : k >= m)

\* String.prototype.lastIndexOf(' '): 0-based, -1 when absent
lastIndexOfSpace(s) ==
  LET at == {k \in 1..Len(s) : s[k] = " "}
  IN IF at = {} THEN -1 ELSE (CHOOSE k \in at : \A m \in at : k >= m) - 1

\* s.split(/[.!?]/)[0]
beforeTerminator(s) ==
  LET at == {k \in 1..Len(s) : IsTerminator(s[k])}
  IN IF at = {} THEN s ELSE SubSeq(s, 1, (CHOOSE k \in at : \A m \in at : k <= m) - 1)

\* s.charAt(0).toUpperCase() + s.slice(1)
capitalize(s) == IF s = << >> THEN s ELSE <<UpperChar(s[1])>> \o Tail(s)

\* does pattern p occur in s at 1-based position k (case-sensitive)
OccursAt(s, p, k) ==
  /\ k >= 1
  /\ k + Len(p) - 1 <= Len(s)
  /\ \A m \in 1..Len(p) : s[k + m - 1] = p[m]

\* the same under the regular expression flag i (p is given in lower case)
OccursAtI(s, p, k) == OccursAt(toLowerCase(s), toLowerCase(p), k)

\* String.prototype.includes
includes(s, p) == \E k \in 1..(Len(s) - Len(p) + 1) : OccursAt(s, p, k)

\* s.split(/\s+/).length
splitSpaceCount(s) ==
  1 + Cardinality({k \in 2..Len(s) : IsSpace(s[k]) /\ ~IsSpace(s[k - 1])}
                    \cup {k \in 1..Min(1, Len(s)) : IsSpace(s[k])})

(***************************************************************************)
(* generateNeutralTitle (services/llmSummarizer)                           *)
(***************************************************************************)
\* the alternation of actionPatterns[0], in its order
ActionVerbs1 ==
  <<<<"a","n","n","o","u","n","c","e","s">>,
   <<"a","n","n","o","u","n","c","e","d">>,
   <<"a","p","p","r","o","v","e","s">>,
   <<"a","p","p","r","o","v","e","d">>,
   <<"r","e","j","e","c","t","s">>,
   <<"r","e","j","e","c","t","e","d">>,
   <<"p","r","o","p","o","s","e","s">>,
   <<"p","r","o","p","o","s","e","d">>,
   <<"i","m","p","l","e","m","e","n","t","s">>,
   <<"i","m","p","l","e","m","e","n","t","e","d">>,
   <<"i","n","t","r","o","d","u","c","e","s">>,
   <<"i","n","t","r","o","d","u","c","e","d">>,
   <<"l","a","u","n","c","h","e","s">>,
   <<"l","a","u","n","c","h","e","d">>,
   <<"r","e","v","e","a","l","s">>,
   <<"r","e","v","e","a","l","e","d">>,
   <<"c","o","n","f","i","r","m","s">>,
   <<"c","o","n","f","i","r","m","e","d">>,
   <<"d","e","n","i","e","s">>,
   <<"d","e","n","i","e","d">>,
   <<"r","e","p","o","r","t","s">>,
   <<"r","e","p","o","r","t","e","d">>>>

\* the alternation of actionPatterns[1], in its order
ActionVerbs2 ==
  <<<<"p","r","o","t","e","s","t">>,
   <<"p","r","o","t","e","s","t","s">>,
   <<"p","r","o","t","e","s","t","i","n","g">>,
   <<"s","t","r","i","k","e">>,
   <<"s","t","r","i","k","e","s">>,
   <<"s","t","r","i","k","i","n","g">>,
   <<"e","l","e","c","t","i","o","n">>,
   <<"e","l","e","c","t","i","o","n","s">>,
   <<"m","e","e","t","i","n","g">>,
   <<"m","e","e","t","i","n","g","s">>,
   <<"d","e","c","i","s","i","o","n">>,
   <<"d","e","c","i","s","i","o","n","s">>,
   <<"p","o","l","i","c","y">>,
   <<"p","o","l","i","c","i","e","s">>,
   <<"l","a","w">>,
   <<"l","a","w","s">>,
   <<"b","i","l","l">>,
   <<"b","i","l","l","s">>,
   <<"p","l","a","n">>,
   <<"p","l","a","n","s">>>>

\* the alternation of actionPatterns[2], in its order
ActionVerbs3 ==
  <<<<"b","r","e","a","k","s">>,
   <<"b","r","e","a","k","i","n","g">>,
   <<"h","a","p","p","e","n","s">>,
   <<"h","a","p","p","e","n","e","d">>,
   <<"o","c","c","u","r","s">>,
   <<"o","c","c","u","r","r","e","d">>,
   <<"d","e","v","e","l","o","p","s">>,
   <<"d","e","v","e","l","o","p","e","d">>,
   <<"e","m","e","r","g","e","s">>,
   <<"e","m","e","r","g","e","d">>>>

\* This story|The story|...|Multiple sources (flag i: compared in lower case)
LeadPhrases ==
  <<<<"t","h","i","s"," ","s","t","o","r","y">>,
   <<"t","h","e"," ","s","t","o","r","y">>,
   <<"t","h","i","s"," ","a","r","t","i","c","l","e">>,
   <<"t","h","e"," ","a","r","t","i","c","l","e">>,
   <<"a","c","c","o","r","d","i","n","g"," ","t","o">>,
   <<"r","e","p","o","r","t","s"," ","i","n","d","i","c","a","t","e">>,
   <<"s","o","u","r","c","e","s"," ","s","a","y">>,
   <<"m","u","l","t","i","p","l","e"," ","s","o","u","r","c","e","s">>>>

\* the same followed by The news|A story|In|On|At|The|A|An
LeadPhrasesAndArticles ==
  <<<<"t","h","i","s"," ","s","t","o","r","y">>,
   <<"t","h","e"," ","s","t","o","r","y">>,
   <<"t","h","i","s"," ","a","r","t","i","c","l","e">>,
   <<"t","h","e"," ","a","r","t","i","c","l","e">>,
   <<"a","c","c","o","r","d","i","n","g"," ","t","o">>,
   <<"r","e","p","o","r","t","s"," ","i","n","d","i","c","a","t","e">>,
   <<"s","o","u","r","c","e","s"," ","s","a","y">>,
   <<"m","u","l","t","i","p","l","e"," ","s","o","u","r","c","e","s">>,
   <<"t","h","e"," ","n","e","w","s">>,
   <<"a"," ","s","t","o","r","y">>,
   <<"i","n">>,
   <<"o","n">>,
   <<"a","t">>,
   <<"t","h","e">>,
   <<"a">>,
   <<"a","n">>>>

\* that|which|who|where|when|what|how
RelativeWords ==
  <<<<"t","h","a","t">>,
   <<"w","h","i","c","h">>,
   <<"w","h","o">>,
   <<"w","h","e","r","e">>,
   <<"w","h","e","n">>,
   <<"w","h","a","t">>,
   <<"h","o","w">>>>

\* BREAKING|EXCLUSIVE|UPDATE|LIVE
HeadlineTags ==
  <<<<"b","r","e","a","k","i","n","g">>,
   <<"e","x","c","l","u","s","i","v","e">>,
   <<"u","p","d","a","t","e">>,
   <<"l","i","v","e">>>>

\* The Guardian|Guardian|GDELT|Currents|Reuters|AP|BBC
OutletNames ==
  <<<<"t","h","e"," ","g","u","a","r","d","i","a","n">>,
   <<"g","u","a","r","d","i","a","n">>,
   <<"g","d","e","l","t">>,
   <<"c","u","r","r","e","n","t","s">>,
   <<"r","e","u","t","e","r","s">>,
   <<"a","p">>,
   <<"b","b","c">>>>

\* the genericPatterns array
genericPatterns ==
  <<<<"n","e","w","s"," ","s","t","o","r","y">>,
   <<"s","t","o","r","y"," ","1">>,
   <<"s","t","o","r","y"," ","2">>,
   <<"s","t","o","r","y"," ","3">>,
   <<"l","a","t","e","s","t"," ","n","e","w","s">>,
   <<"n","e","w","s"," ","c","o","v","e","r","a","g","e">>,
   <<"s","t","o","r","y"," ","f","r","o","m">>>>

\* index of the first alternative of alts that ok accepts, 0 when none does
FirstAlt(alts, ok(_)) ==
  LET hit == {a \in 1..Len(alts) : ok(alts[a])}
  IN IF hit = {} THEN 0 ELSE CHOOSE a \in hit : \A b \in hit : a <= b

\* number of leading \s characters of s from 1-based position k on
SpacesFrom(s, k) ==
  LET stop == {m \in k..Len(s) : ~IsSpace(s[m])} \cup {Len(s) + 1}
  IN (CHOOSE m \in stop : \A n \in stop : m <= n) - k

\* s.replace(/^(alt1|alt2|...)/i, '')
stripLead(s, alts) ==
  LET ls == toLowerCase(s)
      a == FirstAlt(alts, LAMBDA p : OccursAt(ls, p, 1))
  IN IF a = 0 THEN s ELSE sliceFrom(s, Len(alts[a]))

\* s.replace(/^(alt1|alt2|...)\s+/i, ''): the first alternative that is
\* followed by white space, removed with all the white space after it
stripLeadSpace(s, alts) ==
  LET ls == toLowerCase(s)
      a == FirstAlt(alts, LAMBDA p : OccursAt(ls, p, 1) /\ SpacesFrom(s, Len(p) + 1) >= 1)
  IN IF a = 0 THEN s
     ELSE sliceFrom(s, Len(alts[a]) + SpacesFrom(s, Len(alts[a]) + 1))

\* length of the run of [^.!?] characters of s from 1-based position k on,
\* at most cap: what [^.!?]{0,cap} takes greedily
NonTerminatorRun(s, k, cap) ==
  LET stop == {m \in k..Len(s) : IsTerminator(s[m])} \cup {Len(s) + 1}
  IN Min(cap, (CHOOSE m \in stop : \A n \in stop : m <= n) - k)

\* summary.match(/([A-Z][^.!?]{0,50}(?:verbs)[^.!?]{0,tail})/i)[1], << >> for
\* no match: the leftmost start, the longest lead that a verb follows, the
\* first verb of the alternation there, the longest tail.
matchAction(s, verbs, tail) ==
  LET ls == toLowerCase(s)
      verbAt == {q \in 1..Len(s) : \E v \in 1..Len(verbs) : OccursAt(ls, verbs[v], q)}
      reach(p) == {q \in verbAt : p + 1 <= q /\ q <= p + 1 + NonTerminatorRun(s, p + 1, 50)}
      starts == {p \in 1..Len(s) : IsLetter(s[p]) /\ reach(p) # {}}
  IN IF starts = {} THEN << >>
     ELSE LET p0 == CHOOSE p \in starts : \A r \in starts : p <= r
              q0 == CHOOSE q \in reach(p0) : \A r \in reach(p0) : q >= r
              v0 == FirstAlt(verbs, LAMBDA v : OccursAt(ls, v, q0))
              e0 == q0 + Len(verbs[v0])
          IN SubSeq(s, p0, e0 - 1 + NonTerminatorRun(s, e0, tail))

\* chunk, cut at its last space when lastIndexOf(' ') is greater than past
cutAtLastSpace(chunk, past) ==
  IF lastIndexOfSpace(chunk) > past THEN substring(chunk, 0, lastIndexOfSpace(chunk)) ELSE chunk

\* truncated = s.substring(0, 97), cut at its last space when that is past `past`
truncateAtWord(s, past) == cutAtLastSpace(substring(s, 0, 97), past)

\* if (s.length > 100) { truncate }
truncateLong(s, past) == IF Len(s) > 100 THEN truncateAtWord(s, past) ELSE s

\* s when it has at least n characters; << >>, for a branch that does not
\* return, otherwise
atLeast(s, n) == IF Len(s) >= n THEN s ELSE << >>

\* the value the first branch returns, else that of the later branches
orElse(x, y) == IF x # << >> THEN x ELSE y

\* lines 288-303: the cleaned phrase, returned when it has 20 to 100 characters
keepPhrase(phrase) ==
  IF Len(phrase) >= 20 /\ Len(phrase) <= 100
  THEN truncateLong(capitalize(phrase), 50)
  ELSE << >>

\* lines 281-286: match[1] trimmed and cleaned of its lead phrase
acceptMatch(m) ==
  IF m = << >> THEN << >> ELSE keepPhrase(trim(stripLead(trim(m), LeadPhrases)))

\* Strategy 1 for one pattern: the returned phrase, << >> when none
actionPhrase(s, verbs, tail) == acceptMatch(matchAction(s, verbs, tail))

\* Strategy 1: the first of the three patterns that yields a phrase
strategy1(s) ==
  orElse(actionPhrase(s, ActionVerbs1, 50),
         orElse(actionPhrase(s, ActionVerbs2, 40), actionPhrase(s, ActionVerbs3, 40)))

\* lines 320-337: the cleaned sentence is returned as it is or truncated
acceptSentence(neutral) ==
  IF /\ splitSpaceCount(neutral) >= 3 /\ splitSpaceCount(neutral) <= 15
     /\ Len(neutral) >= 20 /\ Len(neutral) <= 100
  THEN neutral
  ELSE IF Len(neutral) > 100 THEN atLeast(truncateAtWord(neutral, 50), 20) ELSE << >>

\* lines 308-318: a first sentence of more than 15 characters is cleaned
cleanSentence(firstSentence) ==
  IF Len(firstSentence) > 15
  THEN acceptSentence(capitalize(trim(stripLeadSpace(
         stripLeadSpace(firstSentence, LeadPhrasesAndArticles), RelativeWords))))
  ELSE << >>

\* Strategy 2: the first sentence, cleaned; << >> when it does not return
strategy2(s) == cleanSentence(trim(beforeTerminator(s)))

\* Strategy 3: the first 80 characters cut at a word boundary
strategy3(s) ==
  IF Len(s) > 20
  THEN capitalize(atLeast(trim(stripLeadSpace(
         cutAtLastSpace(trim(substring(s, 0, 80)), 30), LeadPhrasesAndArticles)), 20))
  ELSE << >>

\* Strategy 4: the first 70 characters
strategy4(s) ==
  capitalize(atLeast(trim(stripLead(
    cutAtLastSpace(trim(substring(s, 0, 70)), 20), LeadPhrases)), 15))

\* title.replace(/^(BREAKING|EXCLUSIVE|UPDATE|LIVE):\s*/i, '')
stripHeadlineTag(t) ==
  LET lt == toLowerCase(t)
      a == FirstAlt(HeadlineTags, LAMBDA p : OccursAt(lt, p \o <<":">>, 1))
  IN IF a = 0 THEN t
     ELSE sliceFrom(t, Len(HeadlineTags[a]) + 1 + SpacesFrom(t, Len(HeadlineTags[a]) + 2))

\* t.replace(/\s*-\s*(The Guardian|Guardian|GDELT|Currents|Reuters|AP|BBC).*$/i, '')
stripOutlet(t) ==
  LET lt == toLowerCase(t)
      dashAt(p) == p + SpacesFrom(t, p)
      hit == {p \in 1..Len(t) :
                /\ dashAt(p) <= Len(t)
                /\ t[dashAt(p)] = "-"
                /\ \E o \in 1..Len(OutletNames) :
                     OccursAt(lt, OutletNames[o],
                              dashAt(p) + 1 + SpacesFrom(t, dashAt(p) + 1))}
  IN IF hit = {} THEN t
     ELSE SubSeq(t, 1, (CHOOSE p \in hit : \A r \in hit : p <= r) - 1)

\* lines 382-399: the cleaned title is returned as it is or truncated
acceptTitle(neutral) ==
  IF Len(neutral) >= 15 /\ Len(neutral) <= 100 THEN neutral
  ELSE atLeast(truncateLong(neutral, 50), 15)

\* the title branch: the cleaned title, << >> when it does not return
fromTitle(t) ==
  IF t = << >> THEN << >> ELSE acceptTitle(trim(stripOutlet(stripHeadlineTag(t))))

\* lines 405-407: the first sentence of the description
acceptDescription(firstSentence) ==
  IF Len(firstSentence) >= 15 /\ Len(firstSentence) <= 100
  THEN capitalize(firstSentence)
  ELSE << >>

\* the description branch
fromDescription(d) ==
  IF Len(d) > 20 THEN acceptDescription(trim(beforeTerminator(d))) ELSE << >>

\* the last summary branch (always returns when the summary is not empty)
fromShortSummary(s) == capitalize(cutAtLastSpace(trim(substring(s, 0, 60)), 15))

StoryFromMultipleSources ==
  <<"S","t","o","r","y"," ","f","r","o","m"," ","m","u","l","t","i","p","l","e"," ",
    "s","o","u","r","c","e","s">>

\* lines 271-373: the four strategies on a summary of more than 10 characters
fromSummary(s) ==
  IF Len(s) > 10
  THEN orElse(strategy1(s), orElse(strategy2(s), orElse(strategy3(s), strategy4(s))))
  ELSE << >>

\* lines 412-422: a portion of the summary, else the title as it is, else the
\* constant label
lastResort(t, s) ==
  IF Len(s) > 0 THEN fromShortSummary(s)
  ELSE IF t # << >> THEN trim(substring(t, 0, 80))
  ELSE StoryFromMultipleSources

\* generateNeutralTitle(title, description, summary)
generateNeutralTitle(t, d, s) ==
  orElse(fromSummary(s), orElse(fromTitle(t), orElse(fromDescription(d), lastResort(t, s))))

\* /^story\s+\d+$/i.test(t)
isStoryNumber(t) ==
  LET lt == toLowerCase(t)
      spaces == SpacesFrom(lt, 6)
  IN /\ OccursAt(lt, <<"s","t","o","r","y">>, 1)
     /\ spaces >= 1
     /\ 6 + spaces <= Len(lt)
     /\ \A k \in (6 + spaces)..Len(lt) : IsDigit(lt[k])

\* genericPatterns.some(pattern => t.toLowerCase().includes(pattern))
\*   || /^story\s+\d+$/i.test(t)
matchesGenericPattern(t) ==
  \/ \E p \in 1..Len(genericPatterns) : includes(toLowerCase(t), genericPatterns[p])
  \/ isStoryNumber(t)

\* isGeneric: the title is missing, matches a generic pattern or is shorter
\* than 10 characters
isGeneric(t) == t = << >> \/ matchesGenericPattern(t) \/ Len(t) < 10

(***************************************************************************)
(* Articles.  A normalized article is [source, title, description, url,    *)
(* publishedAt]; the pool of a request holds article ids, Article(id) is   *)
(* the record.  Ids 1..Len(Catalogue) are hand-written articles; the ids    *)
(* above are the articles of MaxStories separate stories, each covered by   *)
(* the Guardian and by GDELT.                                               *)
(***************************************************************************)
\* the source of an article that has no source property
Undefined == "undefined"

Catalogue ==
  <<
   [source |-> "guardian",
    \* Flood river insurance costs climb higher
    title |-> <<"F","l","o","o","d"," ","r","i","v","e","r"," ","i","n","s","u","r","a","n","c","e"," ","c","o","s","t","s"," ","c","l","i","m","b"," ","h","i","g","h","e","r">>,
    \* (none)
    description |-> << >>,
    \* https://www.theguardian.com/a
    url |-> <<"h","t","t","p","s",":","/","/","w","w","w",".","t","h","e","g","u","a","r","d","i","a","n",".","c","o","m","/","a">>,
    publishedAt |-> ""],
   [source |-> "gdelt",
    \* Flood warning river towns
    title |-> <<"F","l","o","o","d"," ","w","a","r","n","i","n","g"," ","r","i","v","e","r"," ","t","o","w","n","s">>,
    \* (none)
    description |-> << >>,
    \* https://news.example.org/b
    url |-> <<"h","t","t","p","s",":","/","/","n","e","w","s",".","e","x","a","m","p","l","e",".","o","r","g","/","b">>,
    publishedAt |-> ""],
   [source |-> "currents",
    \* Flood warning issued
    title |-> <<"F","l","o","o","d"," ","w","a","r","n","i","n","g"," ","i","s","s","u","e","d">>,
    \* (none)
    description |-> << >>,
    \* https://currents.example.net/c
    url |-> <<"h","t","t","p","s",":","/","/","c","u","r","r","e","n","t","s",".","e","x","a","m","p","l","e",".","n","e","t","/","c">>,
    publishedAt |-> ""],
   [source |-> "guardian",
    \* River towns evacuated
    title |-> <<"R","i","v","e","r"," ","t","o","w","n","s"," ","e","v","a","c","u","a","t","e","d">>,
    \* (none)
    description |-> << >>,
    \* www.theguardian.com/d
    url |-> <<"w","w","w",".","t","h","e","g","u","a","r","d","i","a","n",".","c","o","m","/","d">>,
    publishedAt |-> ""],
   [source |-> "gdelt",
    \* UK
    title |-> <<"U","K">>,
    \* (none)
    description |-> << >>,
    \* https://news.example.org/e
    url |-> <<"h","t","t","p","s",":","/","/","n","e","w","s",".","e","x","a","m","p","l","e",".","o","r","g","/","e">>,
    publishedAt |-> "2024-05-01T10:00:00Z"],
   [source |-> "guardian",
    \* EU
    title |-> <<"E","U">>,
    \* (none)
    description |-> << >>,
    \* https://news.example.org/f
    url |-> <<"h","t","t","p","s",":","/","/","n","e","w","s",".","e","x","a","m","p","l","e",".","o","r","g","/","f">>,
    publishedAt |-> "2024-05-08T10:00:00Z"],
   [source |-> "guardian",
    \* Latest news coverage of the summit
    title |-> <<"L","a","t","e","s","t"," ","n","e","w","s"," ","c","o","v","e","r","a","g","e"," ","o","f"," ","t","h","e"," ","s","u","m","m","i","t">>,
    \* (none)
    description |-> << >>,
    \* www.theguardian.com/g
    url |-> <<"w","w","w",".","t","h","e","g","u","a","r","d","i","a","n",".","c","o","m","/","g">>,
    publishedAt |-> "2024-05-01T10:00:00Z"],
   [source |-> "gdelt",
    \* Latest news coverage from summit talks
    title |-> <<"L","a","t","e","s","t"," ","n","e","w","s"," ","c","o","v","e","r","a","g","e"," ","f","r","o","m"," ","s","u","m","m","i","t"," ","t","a","l","k","s">>,
    \* Leaders met. Talks go on.
    description |-> <<"L","e","a","d","e","r","s"," ","m","e","t","."," ","T","a","l","k","s"," ","g","o"," ","o","n",".">>,
    \* https://news.example.org/h
    url |-> <<"h","t","t","p","s",":","/","/","n","e","w","s",".","e","x","a","m","p","l","e",".","o","r","g","/","h">>,
    publishedAt |-> "20240501T100000Z"],
   [source |-> "gdelt",
    \* Flood Warning Issued 
    title |-> <<"F","l","o","o","d"," ","W","a","r","n","i","n","g"," ","I","s","s","u","e","d"," ">>,
    \* (none)
    description |-> << >>,
    \* https://currents.example.net/i
    url |-> <<"h","t","t","p","s",":","/","/","c","u","r","r","e","n","t","s",".","e","x","a","m","p","l","e",".","n","e","t","/","i">>,
    publishedAt |-> "2024-05-08T11:00:00Z"],
   [source |-> "currents",
    \* Minister announces flood warning for river towns - Reuters
    title |-> <<"M","i","n","i","s","t","e","r"," ","a","n","n","o","u","n","c","e","s"," ","f","l","o","o","d"," ","w","a","r","n","i","n","g"," ","f","o","r"," ","r","i","v","e","r"," ","t","o","w","n","s"," ","-"," ","R","e","u","t","e","r","s">>,
    \* The minister announced a flood warning for river towns on Monday. Rain continues.
    description |-> <<"T","h","e"," ","m","i","n","i","s","t","e","r"," ","a","n","n","o","u","n","c","e","d"," ","a"," ","f","l","o","o","d"," ","w","a","r","n","i","n","g"," ","f","o","r"," ","r","i","v","e","r"," ","t","o","w","n","s"," ","o","n"," ","M","o","n","d","a","y","."," ","R","a","i","n"," ","c","o","n","t","i","n","u","e","s",".">>,
    \* https://currents.example.net/j
    url |-> <<"h","t","t","p","s",":","/","/","c","u","r","r","e","n","t","s",".","e","x","a","m","p","l","e",".","n","e","t","/","j">>,
    publishedAt |-> "2024-05-03T10:00:00Z"],
   [source |-> Undefined,
    \* Storm closes northern ports
    title |-> <<"S","t","o","r","m"," ","c","l","o","s","e","s"," ","n","o","r","t","h","e","r","n"," ","p","o","r","t","s">>,
    \* (none)
    description |-> << >>,
    \* https://news.example.org/k
    url |-> <<"h","t","t","p","s",":","/","/","n","e","w","s",".","e","x","a","m","p","l","e",".","o","r","g","/","k">>,
    publishedAt |-> "2024-05-03T10:00:00Z"],
   [source |-> "currents",
    \* Harbour strike enters second week
    title |-> <<"H","a","r","b","o","u","r"," ","s","t","r","i","k","e"," ","e","n","t","e","r","s"," ","s","e","c","o","n","d"," ","w","e","e","k">>,
    \* (none)
    description |-> << >>,
    \* https://currents.example.net/l
    url |-> <<"h","t","t","p","s",":","/","/","c","u","r","r","e","n","t","s",".","e","x","a","m","p","l","e",".","n","e","t","/","l">>,
    publishedAt |-> "1970-01-01T00:00:00Z"],
   [source |-> "gdelt",
    \* Harbour strike talks enter second week
    title |-> <<"H","a","r","b","o","u","r"," ","s","t","r","i","k","e"," ","t","a","l","k","s"," ","e","n","t","e","r"," ","s","e","c","o","n","d"," ","w","e","e","k">>,
    \* (none)
    description |-> << >>,
    \* https://news.example.org/m
    url |-> <<"h","t","t","p","s",":","/","/","n","e","w","s",".","e","x","a","m","p","l","e",".","o","r","g","/","m">>,
    publishedAt |-> ""]
  >>

\* the number of separate two-source stories the large pools are drawn from
MaxStories == 25

DigitChars == <<"0","1","2","3","4","5","6","7","8","9">>

\* story s (1..99) as two digits
TwoDigits(s) == <<DigitChars[(s \div 10) + 1], DigitChars[(s % 10) + 1]>>

\* 2024-05-01T10:00:00Z and the days after it, one per story
StoryDates == <<"2024-05-01T10:00:00Z", "2024-05-03T10:00:00Z", "2024-05-08T10:00:00Z">>

\* the article of story s from the Guardian (g = 0) or from GDELT (g = 1):
\* "Topic07 in UK" and "Topic07 at EU"
StoryArticle(s, g) ==
  [source |-> IF g = 0 THEN "guardian" ELSE "gdelt",
   title |-> <<"T","o","p","i","c">> \o TwoDigits(s)
               \o (IF g = 0 THEN <<" ","i","n"," ","U","K">> ELSE <<" ","a","t"," ","E","U">>),
   description |-> << >>,
   url |-> (IF g = 0
            THEN <<"h","t","t","p","s",":","/","/","w","w","w",".","t","h","e","g","u","a","r","d","i","a","n",".","c","o","m","/">>
            ELSE <<"h","t","t","p","s",":","/","/","n","e","w","s",".","e","x","a","m","p","l","e",".","o","r","g","/">>)
           \o TwoDigits(s),
   publishedAt |-> IF g = 0 THEN StoryDates[(s % 3) + 1] ELSE ""]

StoryId(s, g) == Len(Catalogue) + 2 * (s - 1) + g + 1

\* another source label
OtherSource(source) ==
  CASE source = "guardian" -> "gdelt"
    [] source = "gdelt" -> "currents"
    [] OTHER -> "guardian"

\* the id of the hand-written article id under another source label: the
\* same title, description, url and publishedAt
RelabelledId(id) == Len(Catalogue) + 2 * MaxStories + id

ArticleIds == 1..(Len(Catalogue) + 2 * MaxStories + Len(Catalogue))

Article(id) ==
  IF id <= Len(Catalogue) THEN Catalogue[id]
  ELSE IF id <= Len(Catalogue) + 2 * MaxStories
  THEN StoryArticle(((id - Len(Catalogue) - 1) \div 2) + 1, (id - Len(Catalogue) - 1) % 2)
  ELSE [Catalogue[id - Len(Catalogue) - 2 * MaxStories] EXCEPT !.source = OtherSource(@)]

(***************************************************************************)
(* JavaScript built-ins the grouper relies on                              *)
(***************************************************************************)
\* A JavaScript number that may be NaN
Num(v) == [nan |-> FALSE, v |-> v]
NaN == [nan |-> TRUE, v |-> 0]

\* new Date(s).getTime() in hours since 1970-01-01T00:00Z (every date of the
\* model is on a full hour); NaN for a string Date cannot parse, such as
\* GDELT's compact seendate format
DateGetTime(s) ==
  CASE s = "1970-01-01T00:00:00Z" -> Num(0)
    [] s = "2024-05-01T10:00:00Z" -> Num(476266)
    [] s = "2024-05-03T10:00:00Z" -> Num(476314)
    [] s = "2024-05-08T10:00:00Z" -> Num(476434)
    [] s = "2024-05-08T11:00:00Z" -> Num(476435)
    [] OTHER -> NaN

HoursPerDay == 24

\* new URL(u): the hostname of an http(s) URL, << >> for the values on which
\* the constructor throws (no scheme, empty host)
UrlSchemes == << <<"h","t","t","p","s",":","/","/">>, <<"h","t","t","p",":","/","/">> >>

UrlHostname(u) ==
  LET lu == toLowerCase(u)
      sc == FirstAlt(UrlSchemes, LAMBDA p : OccursAt(lu, p, 1))
      from == Len(UrlSchemes[sc]) + 1
      stop == {k \in from..Len(u) : u[k] \in {"/", "?", "#", ":"}} \cup {Len(u) + 1}
  IN IF sc = 0 THEN << >>
     ELSE SubSeq(lu, from, (CHOOSE k \in stop : \A m \in stop : k <= m) - 1)

(***************************************************************************)
(* services/articleGrouper                                                 *)
(***************************************************************************)
\* .replace(/[^\w\s]/g, ' ')
replacePunctuation(s) ==
  [k \in 1..Len(s) |-> IF IsWordChar(s[k]) \/ IsSpace(s[k]) THEN s[k] ELSE " "]

\* .replace(/\s+/g, ' '): of every run of white space one space is kept
collapseSpaces(s) ==
  LET withPrevious == [k \in 1..Len(s) |-> <<s[k], IF k > 1 THEN s[k - 1] ELSE "">>]
      kept == SelectSeq(withPrevious, LAMBDA c : ~(IsSpace(c[1]) /\ IsSpace(c[2])))
  IN [k \in 1..Len(kept) |-> IF IsSpace(kept[k][1]) THEN " " ELSE kept[k][1]]

\* normalizeText: lower case, punctuation to spaces, white space collapsed
\* and trimmed
normalizeText(text) == trim(collapseSpaces(replacePunctuation(toLowerCase(text))))

\* a property key that is an array index: Object.entries lists these first,
\* in ascending numeric order (digit strings of up to 9 digits are modelled)
IsIndexKey(w) ==
  /\ Len(w) >= 1 /\ Len(w) <= 9
  /\ \A k \in 1..Len(w) : IsDigit(w[k])
  /\ (Len(w) > 1 => w[1] # "0")

DigitValue(c) == (CHOOSE k \in 1..10 : DigitChars[k] = c) - 1

RECURSIVE IndexValue(_)
IndexValue(w) == IF w = << >> THEN 0 ELSE 10 * IndexValue(SubSeq(w, 1, Len(w) - 1)) + DigitValue(w[Len(w)])

\* s.split(/\s+/): the pieces between the runs of white space, the empty
\* piece before a leading and after a trailing run included
splitSpace(s) ==
  LET positions == [k \in 1..(Len(s) + 1) |-> k]
      starts == SelectSeq(positions, LAMBDA k :
                  \/ k = 1
                  \/ (IsSpace(s[k - 1]) /\ (k = Len(s) + 1 \/ ~IsSpace(s[k]))))
      stop(k) == {e \in k..Len(s) : IsSpace(s[e])} \cup {Len(s) + 1}
  IN [n \in 1..Len(starts) |->
        SubSeq(s, starts[n], (CHOOSE e \in stop(starts[n]) : \A m \in stop(starts[n]) : e <= m) - 1)]

\* Object.entries(wordCounts).sort((a, b) => b[1] - a[1]).slice(0, maxTerms)
\* .map(([word]) => word): the counted words by descending count (a stable
\* sort of the order of Object.entries), the first maxTerms
topTerms(words, maxTerms) ==
  LET keys == {k \in 1..Len(words) : \A m \in 1..(k - 1) : words[m] # words[k]}
      count(k) == Cardinality({m \in 1..Len(words) : words[m] = words[k]})
      \* the order of Object.entries(wordCounts)
      before(a, b) ==
        IF IsIndexKey(words[a]) /\ IsIndexKey(words[b])
        THEN IndexValue(words[a]) < IndexValue(words[b])
        ELSE IF IsIndexKey(words[a]) # IsIndexKey(words[b]) THEN IsIndexKey(words[a])
        ELSE a < b
      rank(k) == Cardinality({m \in keys :
                   count(m) > count(k) \/ (count(m) = count(k) /\ before(m, k))})
  IN [n \in 1..Min(maxTerms, Cardinality(keys)) |-> words[CHOOSE k \in keys : rank(k) = n - 1]]

\* extractKeyTerms(text, maxTerms)
extractKeyTerms(text, maxTerms) ==
  topTerms(SelectSeq(splitSpace(normalizeText(text)), LAMBDA word : Len(word) > 3), maxTerms)

\* jaccardSimilarity, as the fraction <<numerator, denominator>>
jaccardSimilarity(set1, set2) ==
  IF set1 = {} /\ set2 = {} THEN <<1, 1>>
  ELSE IF set1 = {} \/ set2 = {} THEN <<0, 1>>
  ELSE <<Cardinality(set1 \cap set2), Cardinality(set1 \cup set2)>>

\* the key terms of every article, computed once
KeyTermsOf ==
  [id \in ArticleIds |->
     Range(extractKeyTerms(Article(id).title \o <<" ">> \o Article(id).description, 10))]

\* the 0.1 bonus, in hundredths, for two parseable dates at most 7 days apart
timeBonusOf(a1, a2) ==
  LET published1 == Article(a1).publishedAt
      published2 == Article(a2).publishedAt
      date1 == DateGetTime(published1)
      date2 == DateGetTime(published2)
      hoursDiff == IF date1.v >= date2.v THEN date1.v - date2.v ELSE date2.v - date1.v
  IN IF published1 # "" /\ published2 # ""
        /\ ~date1.nan /\ ~date2.nan /\ hoursDiff <= 7 * HoursPerDay
     THEN 10 ELSE 0

\* new URL(article.url).hostname of every article, computed once
HostnameOf == [id \in ArticleIds |-> UrlHostname(Article(id).url)]

\* the 0.05 bonus, in hundredths, for two parseable URLs of one hostname
urlBonusOf(a1, a2) ==
  LET host1 == HostnameOf[a1]
      host2 == HostnameOf[a2]
  IN IF host1 # << >> /\ host2 # << >> /\ host1 = host2 THEN 5 ELSE 0

\* the sum as it is without Math.min
minOneUncapped(x) == x

\* Math.min(1, x) of the fraction x
minOne(x) == <<Min(x[1], x[2]), x[2]>>

\* Math.min(1, textSimilarity + timeBonus + urlBonus), the bonuses being in
\* hundredths and textSimilarity a fraction
combinedScore(textSimilarity, timeBonus, urlBonus) ==
  minOne(<<100 * textSimilarity[1] + (timeBonus + urlBonus) * textSimilarity[2],
           100 * textSimilarity[2]>>)

\* a similarity that is 0 for two articles of different sources
calculateSimilarityWithinSource(a1, a2) ==
  IF Article(a1).source = Article(a2).source
  THEN combinedScore(jaccardSimilarity(KeyTermsOf[a1], KeyTermsOf[a2]),
                     timeBonusOf(a1, a2), urlBonusOf(a1, a2))
  ELSE <<0, 1>>

\* calculateSimilarity of the articles with ids a1 and a2, as the fraction
\* <<numerator, denominator>>
calculateSimilarity(a1, a2) ==
  combinedScore(jaccardSimilarity(KeyTermsOf[a1], KeyTermsOf[a2]),
                timeBonusOf(a1, a2), urlBonusOf(a1, a2))

\* comparisons of fractions with positive denominators
FracGE(x, y) == x[1] * y[2] >= y[1] * x[2]
FracGT(x, y) == x[1] * y[2] > y[1] * x[2]

\* the similarity threshold, given in percent, as a fraction
Threshold(percent) == <<percent, 100>>

\* the test of lines 147-150 with the comparison against the threshold turned
\* around
betterMatchInverted(best, k, similarity, threshold) ==
  IF FracGE(Threshold(threshold), similarity) /\ FracGT(similarity, best[2])
  THEN <<k, similarity>> ELSE best

\* the test of lines 147-150 with >= in the place of > bestSimilarity
betterMatchLast(best, k, similarity, threshold) ==
  IF FracGE(similarity, Threshold(threshold)) /\ FracGE(similarity, best[2])
  THEN <<k, similarity>> ELSE best

\* the test of lines 147-150: group k replaces the best match so far when its
\* similarity reaches the threshold and exceeds bestSimilarity
betterMatch(best, k, similarity, threshold) ==
  IF FracGE(similarity, Threshold(threshold)) /\ FracGT(similarity, best[2])
  THEN <<k, similarity>> ELSE best

\* the inner loop of groupSimilarArticles (lines 142-151) over the groups
\* 1..k: <<bestGroup, bestSimilarity>>, bestGroup being the index of the group
\* (0 for null); each group is compared through its first article
RECURSIVE scanGroups(_, _, _, _, _)
scanGroups(pool, gs, article, threshold, k) ==
  IF k = 0 THEN <<0, <<0, 1>>>>
  ELSE betterMatch(scanGroups(pool, gs, article, threshold, k - 1), k,
                   calculateSimilarity(article, pool[gs[k].articles[1]]), threshold)

\* lines 153-165 without the push onto the best group
joinOrOpenNoPush(gs, p, bestGroup) ==
  IF bestGroup # 0
  THEN gs
  ELSE Append(gs, [groupId |-> Len(gs) + 1, articles |-> <<p>>])

\* lines 153-165 with the article put at the front of the best group
joinOrOpenInFront(gs, p, bestGroup) ==
  IF bestGroup # 0
  THEN [gs EXCEPT ![bestGroup].articles = <<p>> \o @]
  ELSE Append(gs, [groupId |-> Len(gs) + 1, articles |-> <<p>>])

\* lines 153-165: the article at pool position p joins the best group or
\* opens the group `group-<n+1>`
joinOrOpen(gs, p, bestGroup) ==
  IF bestGroup # 0
  THEN [gs EXCEPT ![bestGroup].articles = Append(@, p)]
  ELSE Append(gs, [groupId |-> Len(gs) + 1, articles |-> <<p>>])

\* the body of the outer loop (lines 136-165) for pool position p
placeArticle(pool, gs, p, threshold) ==
  joinOrOpen(gs, p, scanGroups(pool, gs, pool[p], threshold, Len(gs))[1])

\* Array.prototype.sort with a comparator b.key - a.key, keys[k] being the
\* key of seq[k]: descending, and stable
sortDescending(seq, keys) ==
  LET rank(k) == Cardinality({m \in 1..Len(seq) :
                    keys[m] > keys[k] \/ (keys[m] = keys[k] /\ m < k)})
  IN [n \in 1..Len(seq) |-> seq[CHOOSE k \in 1..Len(seq) : rank(k) = n - 1]]

\* groups.sort((a, b) => b.articles.length - a.articles.length)
sortBySize(gs) == sortDescending(gs, [k \in 1..Len(gs) |-> Len(gs[k].articles)])

\* the whole pass over the positions p.. of the pool
RECURSIVE placeFrom(_, _, _, _)
placeFrom(pool, gs, p, threshold) ==
  IF p > Len(pool) THEN gs
  ELSE placeFrom(pool, placeArticle(pool, gs, p, threshold), p + 1, threshold)

\* groupSimilarArticles(articles, similarityThreshold)
groupSimilarArticles(pool, threshold) ==
  IF Len(pool) = 0 THEN << >> ELSE sortBySize(placeFrom(pool, << >>, 1, threshold))

(***************************************************************************)
(* services/llmSummarizer: summarizeArticleGroup and generateBasicSummary  *)
(*                                                                         *)
(* A group is [groupId, articles]: groupId n stands for the string         *)
(* `group-n`, articles is the sequence of article ids.  A block that can   *)
(* throw yields [threw |-> TRUE] or [threw |-> FALSE, value |-> v].        *)
(***************************************************************************)
Returned(v) == [threw |-> FALSE, value |-> v]
Threw == [threw |-> TRUE]

\* try { attempt } without its catch
catchNothing(attempt, handler) == attempt

\* try { attempt } catch { handler }
catchWith(attempt, handler) == IF attempt.threw THEN handler ELSE attempt

\* the promise an async function settles to
settle(attempt) ==
  IF attempt.threw THEN [status |-> "rejected"]
  ELSE [status |-> "fulfilled", value |-> attempt.value]

\* values of a parsed JSON answer
Undef == [type |-> "undefined"]
Str(s) == [type |-> "string", v |-> s]
\* a number, v being its digits
NumberValue == [type |-> "number", v |-> <<"7">>]
Arr(a) == [type |-> "array", v |-> a]

\* x is truthy
truthy(x) ==
  CASE x.type = "undefined" -> FALSE
    [] x.type = "string" -> x.v # << >>
    [] x.type = "number" -> x.v # <<"0">>
    [] OTHER -> TRUE

\* 'News Story'
TxtNewsStory ==
  <<"N","e","w","s"," ","S","t","o","r","y">>

\* 'No articles to summarize.'
TxtNoArticlesToSummarize ==
  <<"N","o"," ","a","r","t","i","c","l","e","s"," ","t","o"," ","s","u","m","m","a","r","i","z","e",".">>

\* 'No articles available for comparison.'
TxtNoArticlesForComparison ==
  <<"N","o"," ","a","r","t","i","c","l","e","s"," ","a","v","a","i","l","a","b","l","e"," ","f","o","r"," ","c","o","m","p","a","r","i","s","o","n",".">>

\* 'Only covered by '
TxtOnlyCoveredBy ==
  <<"O","n","l","y"," ","c","o","v","e","r","e","d"," ","b","y"," ">>

\* 'Summary not available.'
TxtSummaryNotAvailable ==
  <<"S","u","m","m","a","r","y"," ","n","o","t"," ","a","v","a","i","l","a","b","l","e",".">>

\* 'Comparison not available.'
TxtComparisonNotAvailable ==
  <<"C","o","m","p","a","r","i","s","o","n"," ","n","o","t"," ","a","v","a","i","l","a","b","l","e",".">>

\* 'Articles differ in their focus and emphasis.'
TxtArticlesDiffer ==
  <<"A","r","t","i","c","l","e","s"," ","d","i","f","f","e","r"," ","i","n"," ","t","h","e","i","r"," ","f","o","c","u","s"," ","a","n","d"," ","e","m","p","h","a","s","i","s",".">>

\* 'Multiple sources ('
TxtMultipleSourcesOpen ==
  <<"M","u","l","t","i","p","l","e"," ","s","o","u","r","c","e","s"," ","(">>

\* ') covered this story.'
TxtCoveredThisStory ==
  <<")"," ","c","o","v","e","r","e","d"," ","t","h","i","s"," ","s","t","o","r","y",".">>

\* 'This story was covered by '
TxtThisStoryWasCoveredBy ==
  <<"T","h","i","s"," ","s","t","o","r","y"," ","w","a","s"," ","c","o","v","e","r","e","d"," ","b","y"," ">>

\* 'Each source provides its own perspective on the events.'
TxtOwnPerspectiveOnTheEvents ==
  <<"E","a","c","h"," ","s","o","u","r","c","e"," ","p","r","o","v","i","d","e","s"," ","i","t","s"," ","o","w","n"," ","p","e","r","s","p","e","c","t","i","v","e"," ","o","n"," ","t","h","e"," ","e","v","e","n","t","s",".">>

\* 'Each source offers a different angle on the story.'
TxtDifferentAngle ==
  <<"E","a","c","h"," ","s","o","u","r","c","e"," ","o","f","f","e","r","s"," ","a"," ","d","i","f","f","e","r","e","n","t"," ","a","n","g","l","e"," ","o","n"," ","t","h","e"," ","s","t","o","r","y",".">>

\* 'Covered by '
TxtCoveredBy ==
  <<"C","o","v","e","r","e","d"," ","b","y"," ">>

\* ' with different perspectives.'
TxtWithDifferentPerspectives ==
  <<" ","w","i","t","h"," ","d","i","f","f","e","r","e","n","t"," ","p","e","r","s","p","e","c","t","i","v","e","s",".">>

\* ' with varying perspectives.'
TxtWithVaryingPerspectives ==
  <<" ","w","i","t","h"," ","v","a","r","y","i","n","g"," ","p","e","r","s","p","e","c","t","i","v","e","s",".">>

\* ' cover this story with different perspectives.'
TxtCoverThisStory ==
  <<" ","c","o","v","e","r"," ","t","h","i","s"," ","s","t","o","r","y"," ","w","i","t","h"," ","d","i","f","f","e","r","e","n","t"," ","p","e","r","s","p","e","c","t","i","v","e","s",".">>

\* 'Multiple sources covered this story.'
TxtMultipleSourcesCovered ==
  <<"M","u","l","t","i","p","l","e"," ","s","o","u","r","c","e","s"," ","c","o","v","e","r","e","d"," ","t","h","i","s"," ","s","t","o","r","y",".">>

\* ' article(s) - '
TxtArticlesDash ==
  <<" ","a","r","t","i","c","l","e","(","s",")"," ","-"," ">>


\* `${source}` of a source identifier
sourceText(s) ==
  CASE s = "guardian" -> <<"g","u","a","r","d","i","a","n">>
    [] s = "gdelt" -> <<"g","d","e","l","t">>
    [] s = "currents" -> <<"c","u","r","r","e","n","t","s">>
    [] OTHER -> <<"u","n","d","e","f","i","n","e","d">>

\* nameMap[s] || s, as Array.prototype.join renders it (undefined as '')
nameMap(s) ==
  CASE s = "guardian" -> <<"T","h","e"," ","G","u","a","r","d","i","a","n">>
    [] s = "gdelt" -> <<"G","D","E","L","T">>
    [] s = "currents" -> <<"C","u","r","r","e","n","t","s">>
    [] OTHER -> << >>

\* String(n) for 0 <= n <= 99
toDecimal(n) == IF n < 10 THEN <<DigitChars[n + 1]>> ELSE TwoDigits(n)

\* Array.prototype.join
RECURSIVE join(_, _)
join(parts, separator) ==
  IF Len(parts) = 0 THEN << >>
  ELSE IF Len(parts) = 1 THEN parts[1]
  ELSE parts[1] \o separator \o join(Tail(parts), separator)

\* Array.prototype.slice(0, 2)
firstTwo(seq) == SubSeq(seq, 1, Min(2, Len(seq)))

\* [...new Set(group.articles.map(a => a.source))]: the sources in the order
\* of their first article
uniqueSources(ids) ==
  LET source == [k \in 1..Len(ids) |-> Article(ids[k]).source]
      positions == [k \in 1..Len(ids) |-> k]
      first == SelectSeq(positions, LAMBDA k : \A m \in 1..(k - 1) : source[m] # source[k])
  IN [n \in 1..Len(first) |-> source[first[n]]]

\* sources.map(s => nameMap[s] || s)
sourceNames(sources) == [k \in 1..Len(sources) |-> nameMap(sources[k])]

(***************************************************************************)
(* generateBasicSummary                                                    *)
(***************************************************************************)
\* group.articles.map(a => a.title).join('; ')
joinedTitles(ids) == join([k \in 1..Len(ids) |-> Article(ids[k]).title], <<";", " ">>)

\* group.articles.map(a => a.description).filter(Boolean).slice(0, 2).join(' ')
joinedDescriptions(ids) ==
  join(firstTwo(SelectSeq([k \in 1..Len(ids) |-> Article(ids[k]).description],
                          LAMBDA d : d # << >>)),
       <<" ">>)

\* `${source}: ${sourceArticles.length} article(s) - ${sourceArticles[0].title}`
basicDifference(ids, source) ==
  LET sourceArticles == SelectSeq(ids, LAMBDA id : Article(id).source = source)
  IN sourceText(source) \o <<":", " ">> \o toDecimal(Len(sourceArticles))
       \o TxtArticlesDash \o Article(sourceArticles[1]).title

\* lines 231-243: the two comparisons
basicDetailedComparison(sources) ==
  TxtThisStoryWasCoveredBy \o join(sourceNames(sources), <<",", " ">>) \o <<".", " ">>
    \o (IF Len(sources) = 2 THEN TxtOwnPerspectiveOnTheEvents ELSE TxtDifferentAngle)

basicSimpleComparison(sources) ==
  IF Len(sources) = 2
  THEN nameMap(sources[1]) \o <<" ", "a", "n", "d", " ">> \o nameMap(sources[2]) \o TxtCoverThisStory
  ELSE TxtCoveredBy \o join(sourceNames(sources), <<",", " ">>) \o TxtWithVaryingPerspectives

\* lines 245-257: the returned object, the summary being
\* descriptions || titles || 'Multiple sources covered this story.'
basicSummaryOf(group, sources, text) ==
  [groupId |-> group.groupId,
   groupTitle |-> generateNeutralTitle(Article(group.articles[1]).title,
                                       Article(group.articles[1]).description, text),
   summary |-> text,
   detailedComparison |-> basicDetailedComparison(sources),
   simpleComparison |-> basicSimpleComparison(sources),
   differences |-> [k \in 1..Len(sources) |-> basicDifference(group.articles, sources[k])]]

generateBasicSummary(group) ==
  basicSummaryOf(group, uniqueSources(group.articles),
                 orElse(joinedDescriptions(group.articles),
                        orElse(joinedTitles(group.articles), TxtMultipleSourcesCovered)))


(***************************************************************************)
(* summarizeArticleGroup                                                   *)
(***************************************************************************)
\* lines 21-30: a group without articles
emptyGroupSummary(group) ==
  [groupId |-> group.groupId,
   groupTitle |-> TxtNewsStory,
   summary |-> TxtNoArticlesToSummarize,
   detailedComparison |-> TxtNoArticlesForComparison,
   simpleComparison |-> TxtNoArticlesForComparison,
   differences |-> << >>]

\* lines 38-45: the object returned for one article, the summary being
\* article.description || article.title
singleSummaryOf(group, article, text) ==
  [groupId |-> group.groupId,
   groupTitle |-> generateNeutralTitle(article.title, article.description, text),
   summary |-> text,
   detailedComparison |-> TxtOnlyCoveredBy \o sourceText(article.source) \o <<".">>,
   simpleComparison |-> TxtOnlyCoveredBy \o sourceText(article.source) \o <<".">>,
   differences |-> <<TxtOnlyCoveredBy \o sourceText(article.source) \o <<".">>>>]

\* lines 33-46: a group of one article
singleArticleSummary(group) ==
  singleSummaryOf(group, Article(group.articles[1]),
                  orElse(Article(group.articles[1]).description, Article(group.articles[1]).title))

\* lines 199-208: the object the outer catch returns, sourceNames being the
\* joined names and text the summary built from them
fallbackOf(group, names, text) ==
  [groupId |-> group.groupId,
   groupTitle |-> generateNeutralTitle(Article(group.articles[1]).title,
                                       Article(group.articles[1]).description, text),
   summary |-> text,
   detailedComparison |-> TxtThisStoryWasCoveredBy \o names \o <<".", " ">>
                            \o TxtOwnPerspectiveOnTheEvents,
   simpleComparison |-> TxtCoveredBy \o names \o TxtWithDifferentPerspectives,
   differences |-> [k \in 1..Len(group.articles) |->
                      sourceText(Article(group.articles[k]).source) \o <<":", " ">>
                        \o Article(group.articles[k]).title]]

\* line 197: `Multiple sources (${sourceNames}) covered this story.`
fallbackNamed(group, names) ==
  fallbackOf(group, names, TxtMultipleSourcesOpen \o names \o TxtCoveredThisStory)

\* lines 189-209: the outer catch
fallbackSummary(group) ==
  fallbackNamed(group, join(sourceNames(uniqueSources(group.articles)), <<",", " ">>))

\* lines 160-172: parsed.groupTitle, or the title generated from the summary
\* when that one is generic; toLowerCase throws on a value that is no string
titleOfParsed(group, parsed, text) ==
  IF ~truthy(parsed.groupTitle)
  THEN Returned(generateNeutralTitle(Article(group.articles[1]).title,
                                     Article(group.articles[1]).description, text))
  ELSE IF parsed.groupTitle.type # "string" THEN Threw
  ELSE IF isGeneric(parsed.groupTitle.v)
  THEN Returned(generateNeutralTitle(Article(group.articles[1]).title,
                                     Article(group.articles[1]).description, text))
  ELSE Returned(parsed.groupTitle.v)

\* parsed.detailedComparison || parsed.differences?.join(' ')
\*   || 'Comparison not available.': join is no function of a string
detailedOfParsed(parsed) ==
  IF truthy(parsed.detailedComparison) THEN Returned(parsed.detailedComparison.v)
  ELSE IF parsed.differences.type = "undefined" THEN Returned(TxtComparisonNotAvailable)
  ELSE IF parsed.differences.type # "array" THEN Threw
  ELSE Returned(orElse(join(parsed.differences.v, <<" ">>), TxtComparisonNotAvailable))

\* parsed.simpleComparison || parsed.differences?.[0]
\*   || 'Articles differ in their focus and emphasis.'
simpleOfParsed(parsed) ==
  IF truthy(parsed.simpleComparison) THEN parsed.simpleComparison.v
  ELSE IF parsed.differences.type = "array" /\ Len(parsed.differences.v) > 0
  THEN orElse(parsed.differences.v[1], TxtArticlesDiffer)
  ELSE IF parsed.differences.type = "string" /\ Len(parsed.differences.v) > 0
  THEN <<parsed.differences.v[1]>>
  ELSE TxtArticlesDiffer

\* lines 174-181: the returned object
parsedSummaryOf(group, parsed, text, groupTitle, detailed) ==
  IF groupTitle.threw \/ detailed.threw THEN Threw
  ELSE Returned([groupId |-> group.groupId,
                 groupTitle |-> groupTitle.value,
                 summary |-> text,
                 detailedComparison |-> detailed.value,
                 simpleComparison |-> simpleOfParsed(parsed),
                 differences |-> IF parsed.differences.type = "array"
                                 THEN parsed.differences.v ELSE << >>])

\* lines 159-181: from the parsed answer to the returned object, the summary
\* being parsed.summary || 'Summary not available.'
fromParsedWith(group, parsed, text) ==
  parsedSummaryOf(group, parsed, text, titleOfParsed(group, parsed, text),
                  detailedOfParsed(parsed))

fromParsed(group, parsed) ==
  fromParsedWith(group, parsed,
                 IF truthy(parsed.summary) THEN parsed.summary.v ELSE TxtSummaryNotAvailable)

\* lines 119-181: the request and the parsing of its answer.  The answer llm
\* is [kind, parsed]: the request fails ("error": no connection, a status
\* outside 2xx, the 30 s timeout), the body has no choices[0].message
\* ("noChoices"), the content is JSON ("json"), JSON in a ``` fence
\* ("fenced"), neither ("text"), a fence around text that is no JSON
\* ("fencedText"), or the JSON value null ("null")
callLlm(group, llm) ==
  IF llm.kind \in {"json", "fenced"} THEN fromParsed(group, llm.parsed) ELSE Threw

\* lines 20-187: the body of the outer try
summarizeTry(group, apiKey, llm) ==
  IF Len(group.articles) = 0 THEN Returned(emptyGroupSummary(group))
  ELSE IF Len(group.articles) = 1 THEN Returned(singleArticleSummary(group))
  \* line 52: article.source.toUpperCase()
  ELSE IF \E k \in 1..Len(group.articles) : Article(group.articles[k]).source = Undefined
  THEN Threw
  \* lines 112-116: no API key
  ELSE IF ~apiKey THEN Returned(generateBasicSummary(group))
  \* lines 118-187: the request, its catch falling back to the basic summary
  ELSE catchWith(callLlm(group, llm), Returned(generateBasicSummary(group)))

\* summarizeArticleGroup(group) with the API key configured or not and the
\* answer llm of the generation service: the promise it settles to
summarizeArticleGroup(group, apiKey, llm) ==
  settle(catchWith(summarizeTry(group, apiKey, llm), Returned(fallbackSummary(group))))
(***************************************************************************)
(* The provider clients: fetchGuardianArticles, fetchGdeltArticles and     *)
(* fetchCurrentsArticles.  What happens to the request of a client is its  *)
(* outcome: "ok" (the provider answers with its articles), "noKey" (the    *)
(* API key of the client is not configured), "networkError" (no            *)
(* connection), "httpError" (a status outside 2xx), "malformed" (a 2xx     *)
(* answer whose body is no JSON object) and "silent" (the provider never   *)
(* answers).  A block that throws an Error yields [threw, message].        *)
(***************************************************************************)
\* 'Network Error'
TxtNetworkError ==
  <<"N","e","t","w","o","r","k"," ","E","r","r","o","r">>

\* 'Request failed with status code 500'
TxtRequestFailed ==
  <<"R","e","q","u","e","s","t"," ","f","a","i","l","e","d"," ","w","i","t","h"," ","s","t","a","t","u","s"," ","c","o","d","e"," ","5","0","0">>

\* 'timeout of 15000ms exceeded'
TxtTimeoutExceeded ==
  <<"t","i","m","e","o","u","t"," ","o","f"," ","1","5","0","0","0","m","s"," ","e","x","c","e","e","d","e","d">>

\* "Cannot read properties of undefined (reading 'status')"
TxtCannotReadStatus ==
  <<"C","a","n","n","o","t"," ","r","e","a","d"," ","p","r","o","p","e","r","t","i","e","s"," ","o","f"," ","u","n","d","e","f","i","n","e","d"," ","(","r","e","a","d","i","n","g"," ","'","s","t","a","t","u","s","'",")">>

\* 'Guardian API: '
TxtGuardianApi ==
  <<"G","u","a","r","d","i","a","n"," ","A","P","I",":"," ">>

\* 'GDELT API: '
TxtGdeltApi ==
  <<"G","D","E","L","T"," ","A","P","I",":"," ">>

\* 'Currents API: '
TxtCurrentsApi ==
  <<"C","u","r","r","e","n","t","s"," ","A","P","I",":"," ">>

ThrewError(message) == [threw |-> TRUE, message |-> message]

\* the promise an async function settles to, with the reason of a rejection
settleWithReason(attempt) ==
  IF attempt.threw THEN [status |-> "rejected", reason |-> attempt.message]
  ELSE [status |-> "fulfilled", value |-> attempt.value]

\* try { attempt } catch (error) { throw error }
rethrow(attempt) == attempt

\* try { attempt } catch (error) { return [] }
returnEmpty(attempt) == IF attempt.threw THEN Returned(<< >>) ELSE attempt

\* await axios.get(url, { params }) and what follows it in the try block of
\* fetchGuardianArticles (part_002 lines 176-195); no timeout is set, so
\* that the request to a silent provider stays pending
guardianRequest(outcome, results) ==
  CASE outcome = "ok" -> Returned(results)
    [] outcome = "networkError" -> ThrewError(TxtNetworkError)
    [] outcome = "httpError" -> ThrewError(TxtRequestFailed)
    \* response.data.response is undefined
    [] outcome = "malformed" -> ThrewError(TxtCannotReadStatus)

\* part_002 lines 127-201
fetchGuardianArticles(outcome, results) ==
  settleWithReason(rethrow(IF outcome = "noKey" THEN Returned(<< >>)
                          ELSE guardianRequest(outcome, results)))

\* await axios.get(GDELT_BASE_URL, { params, timeout: 15000 }) and what
\* follows it in the try block of fetchGdeltArticles (part_002 lines 50-100)
gdeltRequest(outcome, results) ==
  CASE outcome = "ok" -> Returned(results)
    [] outcome = "networkError" -> ThrewError(TxtNetworkError)
    [] outcome = "httpError" -> ThrewError(TxtRequestFailed)
    \* response.data is a string: no article list is found in it
    [] outcome = "malformed" -> Returned(<< >>)
    [] outcome = "silent" -> ThrewError(TxtTimeoutExceeded)

\* part_002 lines 17-109
fetchGdeltArticles(outcome, results) ==
  settleWithReason(returnEmpty(gdeltRequest(outcome, results)))

\* await axios.get(endpoint, { params, timeout: 15000 }) and what follows it
\* in the try block of fetchCurrentsArticles (currentsClient.js lines 63-93)
currentsRequest(outcome, results) ==
  CASE outcome = "ok" -> Returned(results)
    [] outcome = "networkError" -> ThrewError(TxtNetworkError)
    [] outcome = "httpError" -> ThrewError(TxtRequestFailed)
    \* response.data is a string: it has no status, no news and no data
    [] outcome = "malformed" -> Returned(<< >>)
    [] outcome = "silent" -> ThrewError(TxtTimeoutExceeded)

\* currentsClient.js lines 15-105
fetchCurrentsArticles(outcome, results) ==
  settleWithReason(returnEmpty(IF outcome = "noKey" THEN Returned(<< >>)
                               ELSE currentsRequest(outcome, results)))

\* the fetch function of a provider
fetchArticles(provider, outcome, results) ==
  CASE provider = "guardian" -> fetchGuardianArticles(outcome, results)
    [] provider = "gdelt" -> fetchGdeltArticles(outcome, results)
    [] provider = "currents" -> fetchCurrentsArticles(outcome, results)

\* the request of the provider gets no answer and has no timeout
neverSettles(provider, outcome) == provider = "guardian" /\ outcome = "silent"

(***************************************************************************)
(* services/normalize: the records of a provider are mapped to the common  *)
(* shape of an article.  A raw record is [isNull, get]: get maps every     *)
(* property name the normalizers read to its value, Undef when the record  *)
(* lacks it; isNull marks a null element of the array.  Of the properties  *)
(* of a normalized article the model keeps id, source, title, description, *)
(* url and publishedAt, which is what the grouper, the summarizer and the  *)
(* route read; content, imageUrl, author and language are filled in the    *)
(* same way and read by nothing modelled.                                  *)
(***************************************************************************)
\* 'No title'
TxtNoTitle ==
  <<"N","o"," ","t","i","t","l","e">>

\* 'undefined'
TxtUndefined ==
  <<"u","n","d","e","f","i","n","e","d">>

\* the property names the normalizers and the filter read
RawFields ==
  {"webUrl", "id", "webTitle", "trailText", "bodyText", "webPublicationDate",
   "url", "shareurl", "articleurl", "articleURL", "title", "seotitle", "seoTitle",
   "seodescription", "seoDescription", "snippet", "description",
   "seendate", "seenDate", "date", "time", "publishedAt", "published"}

\* x || y
or(x, y) == IF truthy(x) THEN x ELSE y

\* `${x}` of a string or undefined
templateText(x) == IF x.type = "undefined" THEN TxtUndefined ELSE x.v

\* lines 21-25: createArticleId; the 8 hexadecimal digits of the MD5 digest
\* are represented by the text that is hashed
createArticleId(sourceName, url, articleTitle) ==
  [prefix |-> sourceName,
   hashOf |-> sourceName \o <<":">> \o templateText(url) \o <<":">> \o templateText(articleTitle)]

\* bodyText?.substring(0, 200)
substring200(x) == IF x.type = "string" THEN Str(SubSeq(x.v, 1, Min(Len(x.v), 200))) ELSE x

\* lines 40-53
normalizeGuardian(raw) ==
  [id |-> createArticleId(<<"g","u","a","r","d","i","a","n">>,
                          or(raw.get.webUrl, raw.get.id), raw.get.webTitle),
   source |-> "guardian",
   title |-> or(raw.get.webTitle, Str(TxtNoTitle)).v,
   description |-> or(raw.get.trailText, or(substring200(raw.get.bodyText), Str(<< >>))).v,
   url |-> or(raw.get.webUrl, Str(<< >>)).v,
   publishedAt |-> or(raw.get.webPublicationDate, Str(<< >>)).v]

\* lines 64-70 of normalizeGdelt
gdeltUrl(raw) ==
  or(raw.get.url, or(raw.get.shareurl, or(raw.get.articleurl,
     or(raw.get.articleURL, Str(<< >>)))))
gdeltTitle(raw) ==
  or(raw.get.title, or(raw.get.seotitle, or(raw.get.seoTitle, Str(TxtNoTitle))))
gdeltDescription(raw) ==
  or(raw.get.seodescription, or(raw.get.seoDescription, or(raw.get.snippet,
     or(raw.get.description, Str(<< >>)))))
gdeltPublishedAt(raw) ==
  or(raw.get.seendate, or(raw.get.seenDate, or(raw.get.date, or(raw.get.time,
     or(raw.get.publishedAt, or(raw.get.published, Str(<< >>)))))))

\* lines 61-84
normalizeGdelt(raw) ==
  [id |-> createArticleId(<<"g","d","e","l","t">>, gdeltUrl(raw), gdeltTitle(raw)),
   source |-> "gdelt",
   title |-> gdeltTitle(raw).v,
   description |-> gdeltDescription(raw).v,
   url |-> gdeltUrl(raw).v,
   publishedAt |-> gdeltPublishedAt(raw).v]

\* lines 99-112
normalizeCurrents(raw) ==
  [id |-> createArticleId(<<"c","u","r","r","e","n","t","s">>,
                          or(raw.get.url, Str(<< >>)), raw.get.title),
   source |-> "currents",
   title |-> or(raw.get.title, Str(TxtNoTitle)).v,
   description |-> or(raw.get.description, Str(<< >>)).v,
   url |-> or(raw.get.url, Str(<< >>)).v,
   publishedAt |-> or(raw.get.published, Str(<< >>)).v]

\* lines 126-132: normalizers[source]
normalizer(sourceName, raw) ==
  CASE sourceName = "guardian" -> normalizeGuardian(raw)
    [] sourceName = "gdelt" -> normalizeGdelt(raw)
    [] sourceName = "currents" -> normalizeCurrents(raw)

\* lines 138-143: the record has a url and a title under one of the names
\* the filter knows
hasRequired(raw) ==
  /\ truthy(or(raw.get.webUrl, or(raw.get.url, or(raw.get.articleurl, raw.get.shareurl))))
  /\ truthy(or(raw.get.webTitle, or(raw.get.title, raw.get.seotitle)))

\* a last check that lets every article through
finalCheckAlways(article) == TRUE

\* line 149: article.url && article.title
finalCheck(article) == article.url # << >> /\ article.title # << >>

\* lines 120-154: normalizeArticles(articles, source); reading a property of
\* a null element throws a TypeError in the filter of line 138
normalizeArticles(rawList, sourceName) ==
  IF ~rawList.isArray THEN Returned(<< >>)
  ELSE IF sourceName \notin {"guardian", "gdelt", "currents"} THEN Returned(<< >>)
  ELSE IF \E k \in 1..Len(rawList.records) : rawList.records[k].isNull THEN Threw
  ELSE Returned(SelectSeq([k \in 1..Len(SelectSeq(rawList.records, hasRequired)) |->
                             normalizer(sourceName,
                                        SelectSeq(rawList.records, hasRequired)[k])],
                          finalCheck))

(***************************************************************************)
(* routes/newsAggregate: GET /aggregate                                    *)
(***************************************************************************)
\* const GROUPS_PER_PAGE = 9
GROUPS_PER_PAGE == 9

\* const MAX_CONCURRENT_SUMMARIES = 3
MAX_CONCURRENT_SUMMARIES == 3

\* the number of leading decimal digits of s from 1-based position k on
DigitsFrom(s, k) ==
  LET stop == {m \in k..Len(s) : ~IsDigit(s[m])} \cup {Len(s) + 1}
  IN (CHOOSE m \in stop : \A n \in stop : m <= n) - k

\* parseInt of the text s from its 1-based position k on, white space skipped:
\* an optional sign and the digits that follow, NaN when there is no digit
parseIntAt(s, k) ==
  LET signed == k <= Len(s) /\ s[k] \in {"+", "-"}
      from == IF signed THEN k + 1 ELSE k
      magnitude == IndexValue(SubSeq(s, from, from + DigitsFrom(s, from) - 1))
  IN IF DigitsFrom(s, from) = 0 THEN NaN
     ELSE IF signed /\ s[k] = "-" THEN Num(0 - magnitude)
     ELSE Num(magnitude)

\* parseInt(s, 10)
parseInt(s) == parseIntAt(s, 1 + SpacesFrom(s, 1))

\* line 23: page ? parseInt(page, 10) : 1
pageNumOf(query) == IF query = << >> THEN Num(1) ELSE parseInt(query)

\* the provider's name in the warnings of lines 43, 48 and 53
apiName(provider) ==
  CASE provider = "guardian" -> TxtGuardianApi
    [] provider = "gdelt" -> TxtGdeltApi
    [] provider = "currents" -> TxtCurrentsApi

\* lines 41-55: what the handler of .catch pushes onto warnings once the
\* promise of the fetch function has settled
caughtWarnings(provider, fetched) ==
  IF fetched.status = "rejected" THEN <<apiName(provider) \o fetched.reason>> ELSE << >>

\* lines 41-55: the promise .catch(err => { ...; return []; }) gives
caught(fetched) ==
  IF fetched.status = "rejected" THEN [status |-> "fulfilled", value |-> << >>] ELSE fetched

\* lines 59-61: result.status === 'fulfilled' ? result.value : []
settledValue(result) == IF result.status = "fulfilled" THEN result.value ELSE << >>

\* lines 40-61: the articles of the three providers, once the promises of
\* the fetch functions have settled
resultsOf(fetched) ==
  [guardian |-> settledValue(caught(fetched.guardian)),
   gdelt |-> settledValue(caught(fetched.gdelt)),
   currents |-> settledValue(caught(fetched.currents))]

\* a pool that leaves out the articles of Currents
combineFirstTwo(results) == results.guardian \o results.gdelt

\* lines 84-95: the pool, the Guardian's articles first, then GDELT's, then
\* those of Currents
combine(results) == results.guardian \o results.gdelt \o results.currents

\* the groups of groupSimilarArticles with the articles themselves in the
\* place of their positions in the pool
withArticles(pool, gs) ==
  [g \in 1..Len(gs) |->
     [groupId |-> gs[g].groupId,
      articles |-> [k \in 1..Len(gs[g].articles) |-> pool[gs[g].articles[k]]]]]

\* lines 176-186: all titles of the group, lower-cased and trimmed, are the
\* same non-empty text
allIdentical(ids) ==
  \A k \in 1..Len(ids) :
    /\ trim(toLowerCase(Article(ids[k]).title)) = trim(toLowerCase(Article(ids[1]).title))
    /\ trim(toLowerCase(Article(ids[k]).title)) # << >>

\* rule 2 of the filter alone
keepGroupAnySource(group) ==
  ~(Len(group.articles) > 1 /\ allIdentical(group.articles))

\* lines 164-190: the test of groups.filter
keepGroup(group) ==
  /\ Len(uniqueSources(group.articles)) >= 2
  /\ ~(Len(group.articles) > 1 /\ allIdentical(group.articles))

\* lines 196-207: getLatestDate, in hours
getLatestDate(group) ==
  LET dates == {DateGetTime(Article(group.articles[k]).publishedAt).v :
                  k \in {m \in 1..Len(group.articles) :
                           /\ Article(group.articles[m]).publishedAt # ""
                           /\ ~DateGetTime(Article(group.articles[m]).publishedAt).nan
                           /\ DateGetTime(Article(group.articles[m]).publishedAt).v > 0}}
  IN IF dates = {} THEN 0 ELSE CHOOSE d \in dates : \A e \in dates : d >= e

\* a sort that puts the least recent group first
sortByOldestDate(gs) == sortDescending(gs, [k \in 1..Len(gs) |-> 0 - getLatestDate(gs[k])])

\* lines 195-209: filteredGroups.sort, most recent first
sortByLatestDate(gs) == sortDescending(gs, [k \in 1..Len(gs) |-> getLatestDate(gs[k])])

\* lines 164-209: the groups that go to synthesis
filterAndSort(gs) == sortByLatestDate(SelectSeq(gs, keepGroup))

(***************************************************************************)
(* GET /aggregate: the results of a batch (lines 222-276)                  *)
(***************************************************************************)
\* 'Failed to summarize group group-'
TxtFailedToSummarizeGroup ==
  <<"F","a","i","l","e","d"," ","t","o"," ","s","u","m","m","a","r","i","z","e"," ","g","r","o","u","p"," ","g","r","o","u","p","-">>

\* 'Summary unavailable. Please review the articles below.'
TxtSummaryUnavailable ==
  <<"S","u","m","m","a","r","y"," ","u","n","a","v","a","i","l","a","b","l","e","."," ","P","l","e","a","s","e"," ","r","e","v","i","e","w"," ","t","h","e"," ","a","r","t","i","c","l","e","s"," ","b","e","l","o","w",".">>

\* 'Each source provides its own perspective.'
TxtOwnPerspective ==
  <<"E","a","c","h"," ","s","o","u","r","c","e"," ","p","r","o","v","i","d","e","s"," ","i","t","s"," ","o","w","n"," ","p","e","r","s","p","e","c","t","i","v","e",".">>

\* 'No articles found from any source.'
TxtNoArticlesFound ==
  <<"N","o"," ","a","r","t","i","c","l","e","s"," ","f","o","u","n","d"," ","f","r","o","m"," ","a","n","y"," ","s","o","u","r","c","e",".">>

\* lines 228-240: the title of a fulfilled result, generated anew when the
\* route finds it generic
checkedTitle(group, groupTitle, text) ==
  IF isGeneric(groupTitle)
  THEN generateNeutralTitle(Article(group.articles[1]).title,
                            Article(group.articles[1]).description, text)
  ELSE groupTitle

\* lines 242-250
summarizedWith(group, value, text) ==
  [groupId |-> value.groupId,
   groupTitle |-> checkedTitle(group, value.groupTitle, text),
   summary |-> text,
   detailedComparison |->
     orElse(value.detailedComparison,
            orElse(join(value.differences, <<" ">>), TxtComparisonNotAvailable)),
   simpleComparison |->
     orElse(value.simpleComparison,
            IF Len(value.differences) > 0
            THEN orElse(value.differences[1], TxtArticlesDiffer)
            ELSE TxtArticlesDiffer),
   differences |-> value.differences,
   articles |-> group.articles]

\* lines 223-250: result.status === 'fulfilled'
fromFulfilled(group, value) ==
  summarizedWith(group, value, orElse(value.summary, TxtSummaryNotAvailable))

\* sources.join(', '), a missing source rendered as ''
joinedSources(ids) ==
  join([k \in 1..Len(uniqueSources(ids)) |->
          IF uniqueSources(ids)[k] = Undefined THEN << >>
          ELSE sourceText(uniqueSources(ids)[k])],
       <<",", " ">>)

\* lines 266-274
unsummarizedWith(group, names, text) ==
  [groupId |-> group.groupId,
   groupTitle |-> generateNeutralTitle(Article(group.articles[1]).title,
                                       Article(group.articles[1]).description, text),
   summary |-> text,
   detailedComparison |-> TxtThisStoryWasCoveredBy \o names \o <<".", " ">> \o TxtOwnPerspective,
   simpleComparison |-> TxtCoveredBy \o names \o TxtWithDifferentPerspectives,
   differences |-> << >>,
   articles |-> group.articles]

\* lines 251-275: result.status === 'rejected'
fromRejected(group) ==
  unsummarizedWith(group, joinedSources(group.articles),
    orElse(join(SelectSeq([k \in 1..Len(group.articles) |-> Article(group.articles[k]).title],
                          LAMBDA t : t # << >>),
                <<";", " ">>),
           TxtSummaryUnavailable))

\* a loop that pushes the results of a batch last call first
pushedReversed(batch, results) ==
  [k \in 1..Len(batch) |->
     IF results[Len(batch) + 1 - k].status = "fulfilled"
     THEN fromFulfilled(batch[Len(batch) + 1 - k], results[Len(batch) + 1 - k].value)
     ELSE fromRejected(batch[Len(batch) + 1 - k])]

\* a forEach that pushes the groups of the fulfilled calls only
pushedFulfilled(batch, results) ==
  LET positions == SelectSeq([k \in 1..Len(batch) |-> k],
                             LAMBDA k : results[k].status = "fulfilled")
  IN [n \in 1..Len(positions) |->
        fromFulfilled(batch[positions[n]], results[positions[n]].value)]

\* lines 222-276: what summaries.forEach pushes onto summarizedGroups
pushed(batch, results) ==
  [k \in 1..Len(batch) |->
     IF results[k].status = "fulfilled"
     THEN fromFulfilled(batch[k], results[k].value)
     ELSE fromRejected(batch[k])]

\* line 254: the warnings summaries.forEach pushes
failures(batch, results) ==
  LET positions == SelectSeq([k \in 1..Len(batch) |-> k],
                             LAMBDA k : results[k].status # "fulfilled")
  IN [n \in 1..Len(positions) |->
        TxtFailedToSummarizeGroup \o toDecimal(batch[positions[n]].groupId)]

\* filteredGroups.slice(from, from + MAX_CONCURRENT_SUMMARIES), from 0-based
batchAt(gs, from) == SubSeq(gs, from + 1, Min(from + MAX_CONCURRENT_SUMMARIES, Len(gs)))

(***************************************************************************)
(* GET /aggregate: pagination (lines 282-310)                              *)
(***************************************************************************)
\* Math.floor(a / b)
floorDiv(a, b) == a \div b

\* Math.ceil(a / b) for a >= 0 and b > 0
ceilDiv(a, b) == (a + b - 1) \div b

\* line 290: Math.max(1, Math.ceil(summarizedGroups.length / groupsPerPage))
totalPagesOf(n) == Max(1, ceilDiv(n, GROUPS_PER_PAGE))

\* pageNum as it is
unclampedPage(n, totalPages) == n

\* line 291: Math.max(1, Math.min(pageNum, totalPages)); Math.min and
\* Math.max give NaN when an argument is NaN
clampPage(n, totalPages) ==
  IF n.nan THEN NaN ELSE Num(Max(1, Min(n.v, totalPages)))

\* Array.prototype.slice(from, to): NaN counts as 0, negative indices count
\* from the end
sliceIndex(n, len) ==
  IF n.nan THEN 0
  ELSE IF n.v < 0 THEN Max(len + n.v, 0)
  ELSE Min(n.v, len)

\* slice that starts one element late
sliceLate(seq, from, to) ==
  SubSeq(seq, sliceIndex(from, Len(seq)) + 2, sliceIndex(to, Len(seq)))

slice(seq, from, to) ==
  SubSeq(seq, sliceIndex(from, Len(seq)) + 1, sliceIndex(to, Len(seq)))

\* lines 292-293: startIndex and endIndex
startIndexOf(currentPage) ==
  IF currentPage.nan THEN NaN ELSE Num((currentPage.v - 1) * GROUPS_PER_PAGE)

endIndexOf(startIndex) ==
  IF startIndex.nan THEN NaN ELSE Num(startIndex.v + GROUPS_PER_PAGE)

\* lines 298-308: the two checks of the limit
enforceLimit(gs) ==
  IF Len(gs) > GROUPS_PER_PAGE THEN SubSeq(gs, 1, GROUPS_PER_PAGE) ELSE gs

\* lines 294-308: finalGroups
finalGroupsOf(summarized, currentPage) ==
  enforceLimit(enforceLimit(
    slice(summarized, startIndexOf(currentPage), endIndexOf(startIndexOf(currentPage)))))

\* lines 313-329: the response
responseOf(summarized, currentPage, warned) ==
  [status |-> 200,
   groups |-> finalGroupsOf(summarized, currentPage),
   pagination |-> [currentPage |-> currentPage,
                   totalPages |-> totalPagesOf(Len(summarized)),
                   totalGroups |-> Len(summarized),
                   groupsPerPage |-> GROUPS_PER_PAGE],
   warnings |-> warned]

\* lines 282-329
paginated(summarized, n, warned) ==
  responseOf(summarized, clampPage(n, totalPagesOf(Len(summarized))), warned)

\* a response for an empty pool that sends the warnings as they are
emptyResponseAsIs(warned) == [status |-> 200, groups |-> << >>, warnings |-> warned]

\* lines 119-127: the response for an empty pool
emptyResponse(warned) ==
  [status |-> 200,
   groups |-> << >>,
   warnings |-> IF Len(warned) > 0 THEN warned ELSE <<TxtNoArticlesFound>>]
(***************************************************************************)
(* Specifications                                                          *)
(***************************************************************************)
gvars == <<articles, similarityThreshold, i, groups, used, gpc>>
cvars == <<article1, article2, score, cpc>>
tvars == <<title, description, summary, neutralTitle, tpc>>
svars == <<callGroup, hasApiKey, answer, promise, spc>>
rvars == <<page, pageNum, providers, outcomes, fetches, warnings, allArticles, allGroups, filteredGroups,
           batchIndex, summaries, summarizedGroups, response, rpc>>
nvars == <<rawArticles, rawSource, normalized, npc>>
lvars == <<storage, lookup, loads, geolocation>>
vars == <<gvars, cvars, tvars, svars, rvars, nvars, lvars>>

\* the variables of a component that a specification does not run
GrouperIdle ==
  /\ articles = << >> /\ similarityThreshold = 30 /\ i = 0
  /\ groups = << >> /\ used = {} /\ gpc = "idle"
SimilarityIdle ==
  article1 = 0 /\ article2 = 0 /\ score = <<0, 1>> /\ cpc = "idle"
TitleIdle ==
  /\ title = << >> /\ description = << >> /\ summary = << >>
  /\ neutralTitle = << >> /\ tpc = "idle"

SummarizeIdle ==
  /\ callGroup = [groupId |-> 0, articles |-> << >>] /\ hasApiKey = FALSE
  /\ answer = [kind |-> "error"] /\ promise = [status |-> "pending"] /\ spc = "idle"

AggregateIdle ==
  /\ page = << >> /\ pageNum = [nan |-> FALSE, v |-> 1]
  /\ providers = [guardian |-> << >>, gdelt |-> << >>, currents |-> << >>]
  /\ outcomes = [guardian |-> "ok", gdelt |-> "ok", currents |-> "ok"]
  /\ fetches = [guardian |-> [status |-> "pending"], gdelt |-> [status |-> "pending"],
                currents |-> [status |-> "pending"]]
  /\ warnings = << >> /\ allArticles = << >> /\ allGroups = << >>
  /\ filteredGroups = << >> /\ batchIndex = 0 /\ summaries = << >>
  /\ summarizedGroups = << >> /\ response = [status |-> 0] /\ rpc = "idle"

NormalizeIdle ==
  /\ rawArticles = [isArray |-> TRUE, records |-> << >>] /\ rawSource = "guardian"
  /\ normalized = [threw |-> FALSE, value |-> << >>] /\ npc = "idle"

LocationIdle ==
  /\ storage = [selectedCountry |-> "null", autoDetected |-> "null",
                detectionAttempted |-> "null"]
  /\ lookup = "none" /\ loads = 0 /\ geolocation = FALSE

\* the variables of the other components, and their idle values
notGrouper == <<cvars, tvars, svars, rvars, nvars, lvars>>
notSimilarity == <<gvars, tvars, svars, rvars, nvars, lvars>>
notTitle == <<gvars, cvars, svars, rvars, nvars, lvars>>
notSummarize == <<gvars, cvars, tvars, rvars, nvars, lvars>>
notAggregate == <<gvars, cvars, tvars, callGroup, promise, spc, nvars, lvars>>
notNormalize == <<gvars, cvars, tvars, svars, rvars, lvars>>
notLocation == <<gvars, cvars, tvars, svars, rvars, nvars>>
OnlyGrouper ==
  SimilarityIdle /\ TitleIdle /\ SummarizeIdle /\ AggregateIdle /\ NormalizeIdle /\ LocationIdle
OnlySimilarity ==
  GrouperIdle /\ TitleIdle /\ SummarizeIdle /\ AggregateIdle /\ NormalizeIdle /\ LocationIdle
OnlyTitle ==
  GrouperIdle /\ SimilarityIdle /\ SummarizeIdle /\ AggregateIdle /\ NormalizeIdle /\ LocationIdle
OnlySummarize ==
  GrouperIdle /\ SimilarityIdle /\ TitleIdle /\ AggregateIdle /\ NormalizeIdle /\ LocationIdle
OnlyAggregate ==
  /\ GrouperIdle /\ SimilarityIdle /\ TitleIdle /\ NormalizeIdle /\ LocationIdle
  /\ callGroup = [groupId |-> 0, articles |-> << >>]
  /\ promise = [status |-> "pending"] /\ spc = "idle"
OnlyNormalize ==
  /\ GrouperIdle /\ SimilarityIdle /\ TitleIdle /\ SummarizeIdle /\ AggregateIdle
  /\ LocationIdle
OnlyLocation ==
  /\ GrouperIdle /\ SimilarityIdle /\ TitleIdle /\ SummarizeIdle /\ AggregateIdle
  /\ NormalizeIdle

(***************************************************************************)
(* SpecGroup: one call of groupSimilarArticles, article by article         *)
(***************************************************************************)
\* the longest pool handed to groupSimilarArticles
MaxPool == 4

\* the articles the pools are drawn from
GrouperIds == {1, 2, 3, 4, 5, 6}

\* the thresholds, in percent
Thresholds == {0, 20, 30, 50, 100}

Pools == UNION {[1..n -> GrouperIds] : n \in 0..MaxPool}

GroupInit ==
  /\ articles \in Pools
  /\ similarityThreshold \in Thresholds
  /\ i = 0 /\ groups = << >> /\ used = {} /\ gpc = "start"
  /\ OnlyGrouper

\* lines 124-129: the empty pool returns [] at once
EnterGrouper ==
  /\ gpc = "start"
  /\ gpc' = IF Len(articles) = 0 THEN "done" ELSE "loop"
  /\ UNCHANGED <<articles, similarityThreshold, i, groups, used, notGrouper>>

\* lines 133-166: one iteration of the outer loop
GroupArticle ==
  /\ gpc = "loop"
  /\ i < Len(articles)
  /\ IF i \in used
     THEN UNCHANGED <<groups, used>>
     ELSE /\ groups' = placeArticle(articles, groups, i + 1, similarityThreshold)
          /\ used' = used \cup {i}
  /\ i' = i + 1
  /\ UNCHANGED <<articles, similarityThreshold, gpc, notGrouper>>

\* lines 168-182: the loop is over, the groups are sorted and returned
SortGroups ==
  /\ gpc = "loop"
  /\ i = Len(articles)
  /\ groups' = sortBySize(groups)
  /\ gpc' = "done"
  /\ UNCHANGED <<articles, similarityThreshold, i, used, notGrouper>>

GroupNext == EnterGrouper \/ GroupArticle \/ SortGroups

SpecGroup == GroupInit /\ [][GroupNext]_vars

(***************************************************************************)
(* SpecSimilarity: one call of calculateSimilarity on two catalogue        *)
(* articles                                                                *)
(***************************************************************************)
SimilarityInit ==
  /\ article1 \in 1..Len(Catalogue)
  /\ article2 \in 1..Len(Catalogue)
  /\ score = <<0, 1>> /\ cpc = "call"
  /\ OnlySimilarity

CallCalculateSimilarity ==
  /\ cpc = "call"
  /\ score' = calculateSimilarity(article1, article2)
  /\ cpc' = "done"
  /\ UNCHANGED <<article1, article2, notSimilarity>>

SimilarityNext == CallCalculateSimilarity

SpecSimilarity == SimilarityInit /\ [][SimilarityNext]_vars

\* the summaries generateNeutralTitle is called with
SummaryInputs ==
  <<
   \* (empty)
   << >>,
   \* A; B
   <<"A",";"," ","B">>,
   \* Story 12
   <<"S","t","o","r","y"," ","1","2">>,
   \* Latest news coverage shows the government announced new plans.
   <<"L","a","t","e","s","t"," ","n","e","w","s"," ","c","o","v","e","r","a","g","e"," ","s","h","o","w","s"," ","t","h","e"," ","g","o","v","e","r","n","m","e","n","t"," ","a","n","n","o","u","n","c","e","d"," ","n","e","w"," ","p","l","a","n","s",".">>,
   \* The government announced new climate targets on Monday. Critics disagree.
   <<"T","h","e"," ","g","o","v","e","r","n","m","e","n","t"," ","a","n","n","o","u","n","c","e","d"," ","n","e","w"," ","c","l","i","m","a","t","e"," ","t","a","r","g","e","t","s"," ","o","n"," ","M","o","n","d","a","y","."," ","C","r","i","t","i","c","s"," ","d","i","s","a","g","r","e","e",".">>,
   \* Multiple sources (The Guardian, GDELT) covered this story.
   <<"M","u","l","t","i","p","l","e"," ","s","o","u","r","c","e","s"," ","(","T","h","e"," ","G","u","a","r","d","i","a","n",","," ","G","D","E","L","T",")"," ","c","o","v","e","r","e","d"," ","t","h","i","s"," ","s","t","o","r","y",".">>,
   \* Summary not available.
   <<"S","u","m","m","a","r","y"," ","n","o","t"," ","a","v","a","i","l","a","b","l","e",".">>,
   \* Traders sold bonds for a third day running while the central bank stayed silent on rates and the currency fell again to a record
   <<"T","r","a","d","e","r","s"," ","s","o","l","d"," ","b","o","n","d","s"," ","f","o","r"," ","a"," ","t","h","i","r","d"," ","d","a","y"," ","r","u","n","n","i","n","g"," ","w","h","i","l","e"," ","t","h","e"," ","c","e","n","t","r","a","l"," ","b","a","n","k"," ","s","t","a","y","e","d"," ","s","i","l","e","n","t"," ","o","n"," ","r","a","t","e","s"," ","a","n","d"," ","t","h","e"," ","c","u","r","r","e","n","c","y"," ","f","e","l","l"," ","a","g","a","i","n"," ","t","o"," ","a"," ","r","e","c","o","r","d">>,
   \* Wildfire spreads in hills; Wildfire threatens homes in hills
   <<"W","i","l","d","f","i","r","e"," ","s","p","r","e","a","d","s"," ","i","n"," ","h","i","l","l","s",";"," ","W","i","l","d","f","i","r","e"," ","t","h","r","e","a","t","e","n","s"," ","h","o","m","e","s"," ","i","n"," ","h","i","l","l","s">>,
   \* Short text here ok
   <<"S","h","o","r","t"," ","t","e","x","t"," ","h","e","r","e"," ","o","k">>,
   \* It is so we do go up to be at it as no one in us or me ok yes
   <<"I","t"," ","i","s"," ","s","o"," ","w","e"," ","d","o"," ","g","o"," ","u","p"," ","t","o"," ","b","e"," ","a","t"," ","i","t"," ","a","s"," ","n","o"," ","o","n","e"," ","i","n"," ","u","s"," ","o","r"," ","m","e"," ","o","k"," ","y","e","s">>,
   \* EU; UK
   <<"E","U",";"," ","U","K">>
  >>

\* the article titles generateNeutralTitle is called with
TitleInputs ==
  <<
   \* (empty)
   << >>,
   \* Fire
   <<"F","i","r","e">>,
   \* BREAKING: Quake strikes northern region - The Guardian
   <<"B","R","E","A","K","I","N","G",":"," ","Q","u","a","k","e"," ","s","t","r","i","k","e","s"," ","n","o","r","t","h","e","r","n"," ","r","e","g","i","o","n"," ","-"," ","T","h","e"," ","G","u","a","r","d","i","a","n">>,
   \* Latest news story 1 from the valley today
   <<"L","a","t","e","s","t"," ","n","e","w","s"," ","s","t","o","r","y"," ","1"," ","f","r","o","m"," ","t","h","e"," ","v","a","l","l","e","y"," ","t","o","d","a","y">>
  >>

\* the article descriptions generateNeutralTitle is called with
DescriptionInputs ==
  <<
   \* (empty)
   << >>,
   \* Officials said the quake was the strongest in a decade. More follows.
   <<"O","f","f","i","c","i","a","l","s"," ","s","a","i","d"," ","t","h","e"," ","q","u","a","k","e"," ","w","a","s"," ","t","h","e"," ","s","t","r","o","n","g","e","s","t"," ","i","n"," ","a"," ","d","e","c","a","d","e","."," ","M","o","r","e"," ","f","o","l","l","o","w","s",".">>,
   \* Too short.
   <<"T","o","o"," ","s","h","o","r","t",".">>
  >>

(***************************************************************************)
(* SpecTitle: one call of generateNeutralTitle                             *)
(***************************************************************************)
TitleInit ==
  /\ title \in Range(TitleInputs)
  /\ description \in Range(DescriptionInputs)
  /\ summary \in Range(SummaryInputs)
  /\ neutralTitle = << >> /\ tpc = "call"
  /\ OnlyTitle

CallGenerateNeutralTitle ==
  /\ tpc = "call"
  /\ neutralTitle' = generateNeutralTitle(title, description, summary)
  /\ tpc' = "done"
  /\ UNCHANGED <<title, description, summary, notTitle>>

TitleNext == CallGenerateNeutralTitle

SpecTitle == TitleInit /\ [][TitleNext]_vars

(***************************************************************************)
(* SpecSummarize: one call of summarizeArticleGroup                        *)
(***************************************************************************)
\* the most articles in the group handed to summarizeArticleGroup
MaxGroup == 2

\* the articles the groups are drawn from
SummarizeIds == {5, 6, 10, 11}

SummarizeGroups ==
  {[groupId |-> 1, articles |-> ids] : ids \in UNION {[1..n -> SummarizeIds] : n \in 0..MaxGroup}}

\* the values the generation service puts in the fields of its answer
LlmTitles ==
  {Undef, NumberValue,
   \* News Story
   Str(<<"N","e","w","s"," ","S","t","o","r","y">>),
   \* Floods
   Str(<<"F","l","o","o","d","s">>),
   \* Flood warnings issued for river towns
   Str(<<"F","l","o","o","d"," ","w","a","r","n","i","n","g","s"," ","i","s","s","u","e","d"," ","f","o","r"," ","r","i","v","e","r"," ","t","o","w","n","s">>)}

LlmSummaries ==
  {Undef,
   \* Rivers rose after heavy rain and several towns were evacuated.
   Str(<<"R","i","v","e","r","s"," ","r","o","s","e"," ","a","f","t","e","r"," ","h","e","a","v","y"," ","r","a","i","n"," ","a","n","d"," ","s","e","v","e","r","a","l"," ","t","o","w","n","s"," ","w","e","r","e"," ","e","v","a","c","u","a","t","e","d",".">>)}

LlmComparisons ==
  {Undef,
   \* The Guardian stresses costs, GDELT the warnings.
   Str(<<"T","h","e"," ","G","u","a","r","d","i","a","n"," ","s","t","r","e","s","s","e","s"," ","c","o","s","t","s",","," ","G","D","E","L","T"," ","t","h","e"," ","w","a","r","n","i","n","g","s",".">>)}

LlmDifferences ==
  {Undef, Arr(<< >>),
   \* none
   Str(<<"n","o","n","e">>),
   \* The Guardian focuses on insurance.
   Arr(<<<<"T","h","e"," ","G","u","a","r","d","i","a","n"," ","f","o","c","u","s","e","s"," ","o","n"," ","i","n","s","u","r","a","n","c","e",".">>,
         \* GDELT highlights the warnings.
         <<"G","D","E","L","T"," ","h","i","g","h","l","i","g","h","t","s"," ","t","h","e"," ","w","a","r","n","i","n","g","s",".">>>>)}

ParsedAnswers ==
  {[groupTitle |-> t, summary |-> s, detailedComparison |-> d, simpleComparison |-> c,
    differences |-> f] :
     t \in LlmTitles, s \in LlmSummaries, d \in LlmComparisons, c \in LlmComparisons,
     f \in LlmDifferences}

\* an answer that the code accepts as it is
CompleteAnswer ==
  \* Flood warnings issued for river towns
  [groupTitle |-> Str(<<"F","l","o","o","d"," ","w","a","r","n","i","n","g","s"," ","i","s","s","u","e","d"," ","f","o","r"," ","r","i","v","e","r"," ","t","o","w","n","s">>),
   \* Rivers rose after heavy rain and several towns were evacuated.
   summary |-> Str(<<"R","i","v","e","r","s"," ","r","o","s","e"," ","a","f","t","e","r"," ","h","e","a","v","y"," ","r","a","i","n"," ","a","n","d"," ","s","e","v","e","r","a","l"," ","t","o","w","n","s"," ","w","e","r","e"," ","e","v","a","c","u","a","t","e","d",".">>),
   \* The Guardian stresses costs, GDELT the warnings.
   detailedComparison |-> Str(<<"T","h","e"," ","G","u","a","r","d","i","a","n"," ","s","t","r","e","s","s","e","s"," ","c","o","s","t","s",","," ","G","D","E","L","T"," ","t","h","e"," ","w","a","r","n","i","n","g","s",".">>),
   \* The Guardian stresses costs, GDELT the warnings.
   simpleComparison |-> Str(<<"T","h","e"," ","G","u","a","r","d","i","a","n"," ","s","t","r","e","s","s","e","s"," ","c","o","s","t","s",","," ","G","D","E","L","T"," ","t","h","e"," ","w","a","r","n","i","n","g","s",".">>),
   \* The Guardian focuses on insurance.
   differences |-> Arr(<<<<"T","h","e"," ","G","u","a","r","d","i","a","n"," ","f","o","c","u","s","e","s"," ","o","n"," ","i","n","s","u","r","a","n","c","e",".">>>>)]

FailedAnswers == {[kind |-> k] : k \in {"error", "noChoices", "text", "fencedText", "null"}}

Answers ==
  FailedAnswers \cup {[kind |-> "json", parsed |-> p] : p \in ParsedAnswers}
    \cup {[kind |-> "fenced", parsed |-> CompleteAnswer]}

SummarizeInit ==
  /\ callGroup \in SummarizeGroups
  /\ \/ hasApiKey = FALSE /\ answer = [kind |-> "error"]
     \/ hasApiKey = TRUE /\ answer \in Answers
  /\ promise = [status |-> "pending"] /\ spc = "call"
  /\ OnlySummarize

CallSummarizeArticleGroup ==
  /\ spc = "call"
  /\ promise' = summarizeArticleGroup(callGroup, hasApiKey, answer)
  /\ spc' = "settled"
  /\ UNCHANGED <<callGroup, hasApiKey, answer, notSummarize>>

SummarizeNext == CallSummarizeArticleGroup

SpecSummarize == SummarizeInit /\ [][SummarizeNext]_vars


(***************************************************************************)
(* SpecAggregate: one GET /aggregate request.  groupSimilarArticles runs    *)
(* article by article, as in SpecGroup; the calls of a batch settle one by *)
(* one, in any order.                                                      *)
(***************************************************************************)
\* const similarityThreshold = 0.3, in percent
RouteThreshold == 30

\* the articles each provider can deliver
GuardianIds == {1, 4, 6, 7}
GdeltIds == {2, 5, 8, 9}
CurrentsIds == {3, 10}

\* no article or one
NoneOrOne(ids) == {<< >>} \cup {<<id>> : id \in ids}

\* every provider delivers no article or one
SmallResults ==
  {[guardian |-> g, gdelt |-> d, currents |-> c] :
     g \in NoneOrOne(GuardianIds), d \in NoneOrOne(GdeltIds), c \in NoneOrOne(CurrentsIds)}

\* the flood articles of all three providers
FloodResults == [guardian |-> <<1, 4>>, gdelt |-> <<2, 9>>, currents |-> <<3, 10>>]

\* the first n stories, each from the Guardian and from GDELT
StoryResults(n) ==
  [guardian |-> [s \in 1..n |-> StoryId(s, 0)],
   gdelt |-> [s \in 1..n |-> StoryId(s, 1)],
   currents |-> << >>]

\* two GDELT articles on the flood warning, and "UK" and "EU"
MixedResults == [guardian |-> <<6>>, gdelt |-> <<9, 2, 5>>, currents |-> << >>]

\* three stories of two sources each: "EU" and "UK" with dates of 2024,
\* the flood warning without a date, and the harbour strike dated at the
\* epoch
EpochResults == [guardian |-> <<6>>, gdelt |-> <<2, 13, 5>>, currents |-> <<3, 12>>]

\* no provider has an article
SmallestResults == [guardian |-> << >>, gdelt |-> << >>, currents |-> << >>]

\* the pools of hand-written articles, and the large pools
CatalogueResults == SmallResults \cup {FloodResults, MixedResults, EpochResults}
LargeResults == {StoryResults(n) : n \in 1..MaxStories}

\* req.query.page
Pages ==
  {<< >>, <<"0">>, <<"-", "3">>, <<"2">>, <<"3">>, <<"a", "b", "c">>,
   <<" ", "2", "n", "d">>}

\* an answer whose title the code finds generic
GenericAnswer ==
  \* News Story
  [groupTitle |-> Str(<<"N","e","w","s"," ","S","t","o","r","y">>),
   summary |-> Undef,
   detailedComparison |-> Undef,
   simpleComparison |-> Undef,
   differences |-> Undef]

\* what the generation service answers to every call of the request
RouteAnswers ==
  {[kind |-> "error"], [kind |-> "json", parsed |-> CompleteAnswer],
   [kind |-> "json", parsed |-> GenericAnswer]}

Pending == [status |-> "pending"]

\* batch.map(group => summarizeArticleGroup(group)): the calls of the batch
\* at loop index from
issued(gs, from) == [k \in 1..Len(batchAt(gs, from)) |-> Pending]

\* what can happen to the request to each provider; fetchGdeltArticles
\* reads no API key
GuardianOutcomes == {"ok", "noKey", "networkError", "httpError", "malformed", "silent"}
GdeltOutcomes == {"ok", "networkError", "httpError", "malformed", "silent"}
CurrentsOutcomes == {"ok", "noKey", "networkError", "httpError", "malformed", "silent"}

AllOk == [guardian |-> "ok", gdelt |-> "ok", currents |-> "ok"]

\* the requests where the request to a provider does not succeed
FailingOutcomes ==
  {[guardian |-> g, gdelt |-> d, currents |-> c] :
     g \in GuardianOutcomes, d \in GdeltOutcomes, c \in CurrentsOutcomes} \ {AllOk}

\* the pages and the pools of the requests with a failing provider
FailingPages == {<< >>, <<"2">>}
FailingResults == {FloodResults, MixedResults}

AggregateInit ==
  /\ \/ /\ page \in Pages /\ outcomes = AllOk
        /\ \/ providers \in CatalogueResults \cup LargeResults
              /\ hasApiKey = FALSE /\ answer = [kind |-> "error"]
           \/ providers \in CatalogueResults
              /\ hasApiKey = TRUE /\ answer \in RouteAnswers
     \/ /\ page \in FailingPages /\ outcomes \in FailingOutcomes
        /\ providers \in FailingResults
        /\ hasApiKey = FALSE /\ answer = [kind |-> "error"]
  /\ fetches = [guardian |-> Pending, gdelt |-> Pending, currents |-> Pending]
  /\ pageNum = Num(1) /\ warnings = << >> /\ allArticles = << >> /\ allGroups = << >>
  /\ filteredGroups = << >> /\ batchIndex = 0 /\ summaries = << >>
  /\ summarizedGroups = << >> /\ response = [status |-> 0] /\ rpc = "request"
  /\ OnlyAggregate

\* lines 21-56: the handler up to the await of the three fetches
FetchArticles ==
  /\ rpc = "request"
  /\ pageNum' = pageNumOf(page)
  /\ warnings' = << >>
  /\ rpc' = "fetching"
  /\ UNCHANGED <<page, providers, outcomes, fetches, hasApiKey, answer, allArticles, allGroups, filteredGroups,
                 batchIndex, summaries, summarizedGroups, response, notAggregate>>

\* lines 40-56: the promise of the fetch function of a provider settles,
\* and the handler of its .catch runs
SettleFetch(provider) ==
  /\ rpc = "fetching"
  /\ fetches[provider] = Pending
  /\ ~neverSettles(provider, outcomes[provider])
  /\ fetches' = [fetches EXCEPT
                   ![provider] = fetchArticles(provider, outcomes[provider],
                                               providers[provider])]
  /\ warnings' = warnings \o caughtWarnings(provider, fetches'[provider])
  /\ UNCHANGED <<page, pageNum, providers, outcomes, hasApiKey, answer, allArticles,
                 allGroups, filteredGroups, batchIndex, summaries, summarizedGroups,
                 response, rpc, notAggregate>>

\* Promise.allSettled of lines 40-56 has all its results
FetchesSettled == \A provider \in DOMAIN fetches : fetches[provider] # Pending

\* lines 58-127: the fetches have settled and the pool is empty
RespondNoArticles ==
  /\ rpc = "fetching" /\ FetchesSettled
  /\ combine(resultsOf(fetches)) = << >>
  /\ allArticles' = << >>
  /\ response' = emptyResponse(warnings)
  /\ rpc' = "responded"
  /\ UNCHANGED <<page, pageNum, providers, outcomes, fetches, hasApiKey, answer, warnings, allGroups,
                 filteredGroups, batchIndex, summaries, summarizedGroups, notAggregate>>

\* lines 58-145: the fetches have settled and the pool is handed to
\* groupSimilarArticles
CallGroupSimilarArticles ==
  /\ rpc = "fetching" /\ FetchesSettled
  /\ combine(resultsOf(fetches)) # << >>
  /\ allArticles' = combine(resultsOf(fetches))
  /\ articles' = allArticles'
  /\ similarityThreshold' = RouteThreshold
  /\ i' = 0 /\ groups' = << >> /\ used' = {} /\ gpc' = "start"
  /\ rpc' = "grouping"
  /\ UNCHANGED <<page, pageNum, providers, outcomes, fetches, hasApiKey, answer, warnings, allGroups,
                 filteredGroups, batchIndex, summaries, summarizedGroups, response,
                 cvars, tvars, callGroup, promise, spc, nvars, lvars>>

\* lines 145-329: groupSimilarArticles has returned and no group passes the
\* filter, so that the loop of the batches does not run
RespondNoGroups ==
  /\ rpc = "grouping" /\ gpc = "done"
  /\ allGroups' = withArticles(allArticles, groups)
  /\ filteredGroups' = filterAndSort(allGroups')
  /\ filteredGroups' = << >>
  /\ response' = paginated(<< >>, pageNum, warnings)
  /\ rpc' = "responded"
  /\ UNCHANGED <<page, pageNum, providers, outcomes, fetches, hasApiKey, answer, warnings, allArticles,
                 batchIndex, summaries, summarizedGroups, notAggregate>>

\* lines 145-219: groupSimilarArticles has returned; the groups are filtered
\* and sorted, and the first batch is issued
StartSummaries ==
  /\ rpc = "grouping" /\ gpc = "done"
  /\ allGroups' = withArticles(allArticles, groups)
  /\ filteredGroups' = filterAndSort(allGroups')
  /\ filteredGroups' # << >>
  /\ batchIndex' = 0
  /\ summaries' = issued(filteredGroups', 0)
  /\ rpc' = "summarizing"
  /\ UNCHANGED <<page, pageNum, providers, outcomes, fetches, hasApiKey, answer, warnings, allArticles,
                 summarizedGroups, response, notAggregate>>

\* one call of the batch settles
SettleSummary(k) ==
  /\ rpc = "summarizing"
  /\ summaries[k] = Pending
  /\ summaries' = [summaries EXCEPT
                     ![k] = summarizeArticleGroup(batchAt(filteredGroups, batchIndex)[k],
                                                  hasApiKey, answer)]
  /\ UNCHANGED <<page, pageNum, providers, outcomes, fetches, hasApiKey, answer, warnings, allArticles,
                 allGroups, filteredGroups, batchIndex, summarizedGroups, response, rpc,
                 notAggregate>>

\* rejections are followed for the requests with at most this many groups
MaxRejecting == 4

\* lines 217-219, 251: Promise.allSettled reports the call of a group as
\* rejected
RejectSummary(k) ==
  /\ rpc = "summarizing"
  /\ Len(filteredGroups) <= MaxRejecting
  /\ summaries[k] = Pending
  /\ summaries' = [summaries EXCEPT ![k] = [status |-> "rejected"]]
  /\ UNCHANGED <<page, pageNum, providers, outcomes, fetches, hasApiKey, answer, warnings,
                 allArticles, allGroups, filteredGroups, batchIndex, summarizedGroups,
                 response, rpc, notAggregate>>

\* a loop that collects the results and issues the next batch without
\* awaiting the calls of the batch
NextBatchEarly ==
  /\ rpc = "summarizing"
  /\ batchIndex + MAX_CONCURRENT_SUMMARIES < Len(filteredGroups)
  /\ summarizedGroups' =
       summarizedGroups \o pushed(batchAt(filteredGroups, batchIndex), summaries)
  /\ warnings' = warnings \o failures(batchAt(filteredGroups, batchIndex), summaries)
  /\ batchIndex' = batchIndex + MAX_CONCURRENT_SUMMARIES
  /\ summaries' = issued(filteredGroups, batchIndex')
  /\ UNCHANGED <<page, pageNum, providers, outcomes, fetches, hasApiKey, answer,
                 allArticles, allGroups, filteredGroups, response, rpc, notAggregate>>

\* lines 216-278: the batch has settled, its results are collected and the
\* next batch is issued
NextBatch ==
  /\ rpc = "summarizing"
  /\ \A k \in 1..Len(summaries) : summaries[k] # Pending
  /\ batchIndex + MAX_CONCURRENT_SUMMARIES < Len(filteredGroups)
  /\ summarizedGroups' =
       summarizedGroups \o pushed(batchAt(filteredGroups, batchIndex), summaries)
  /\ warnings' = warnings \o failures(batchAt(filteredGroups, batchIndex), summaries)
  /\ batchIndex' = batchIndex + MAX_CONCURRENT_SUMMARIES
  /\ summaries' = issued(filteredGroups, batchIndex')
  /\ UNCHANGED <<page, pageNum, providers, outcomes, fetches, hasApiKey, answer, allArticles, allGroups,
                 filteredGroups, response, rpc, notAggregate>>

\* lines 216-329: the last batch has settled, its results are collected and
\* the page is returned
Respond ==
  /\ rpc = "summarizing"
  /\ \A k \in 1..Len(summaries) : summaries[k] # Pending
  /\ batchIndex + MAX_CONCURRENT_SUMMARIES >= Len(filteredGroups)
  /\ summarizedGroups' =
       summarizedGroups \o pushed(batchAt(filteredGroups, batchIndex), summaries)
  /\ warnings' = warnings \o failures(batchAt(filteredGroups, batchIndex), summaries)
  /\ batchIndex' = batchIndex + MAX_CONCURRENT_SUMMARIES
  /\ response' = paginated(summarizedGroups', pageNum, warnings')
  /\ rpc' = "responded"
  /\ UNCHANGED <<page, pageNum, providers, outcomes, fetches, hasApiKey, answer, allArticles, allGroups,
                 filteredGroups, summaries, notAggregate>>

AggregateNext ==
  \/ FetchArticles
  \/ \E provider \in {"guardian", "gdelt", "currents"} : SettleFetch(provider)
  \/ RespondNoArticles
  \/ CallGroupSimilarArticles
  \/ (rpc = "grouping" /\ GroupNext)
  \/ RespondNoGroups
  \/ StartSummaries
  \/ \E k \in 1..MAX_CONCURRENT_SUMMARIES : k <= Len(summaries) /\ SettleSummary(k)
  \/ \E k \in 1..MAX_CONCURRENT_SUMMARIES : k <= Len(summaries) /\ RejectSummary(k)
  \/ NextBatch
  \/ Respond

SpecAggregate == AggregateInit /\ [][AggregateNext]_vars

\* the requests followed to their end: the two pools with every outcome of
\* the three providers, and a pool of four stories in two batches
AggregateLiveInit ==
  /\ AggregateInit
  /\ page \in FailingPages
  /\ hasApiKey = FALSE
  /\ providers \in FailingResults \cup {StoryResults(MaxRejecting), SmallestResults}

\* a request whose steps are taken as long as one can be: every promise
\* that can settle does settle, and the handler goes on once what it awaits
\* has settled
SpecAggregateLive ==
  AggregateLiveInit /\ [][AggregateNext]_vars /\ WF_vars(AggregateNext)

(***************************************************************************)
(* SpecNormalize: one call of normalizeArticles                            *)
(***************************************************************************)
\* the longest array handed to normalizeArticles
MaxRaw == 2

\* a record without any property, and null
NoFields == [isNull |-> FALSE, get |-> [f \in RawFields |-> Undef]]
NullRecord == [isNull |-> TRUE, get |-> [f \in RawFields |-> Undef]]

\* the record raw with property f set to the text s
With(raw, f, s) == [raw EXCEPT !.get[f] = Str(s)]

\* 'http://a.b/1' and 'Port strike'
RawUrl == <<"h","t","t","p",":","/","/","a",".","b","/","1">>
RawTitle == <<"P","o","r","t"," ","s","t","r","i","k","e">>

\* the property that holds the url of a record, "" for none, and the
\* property that holds its title
UrlFields == {"", "webUrl", "url", "shareurl", "articleURL"}
TitleFields == {"", "webTitle", "title", "seoTitle"}

\* the record with its url under u and its title under t
RawRecord(u, t) ==
  LET withUrl == IF u = "" THEN NoFields ELSE With(NoFields, u, RawUrl)
  IN IF t = "" THEN withUrl ELSE With(withUrl, t, RawTitle)

\* records of the three providers with a date and a description, a record
\* whose url and title are '', and null
FullRecords ==
  {With(With(RawRecord("webUrl", "webTitle"), "webPublicationDate",
               <<"2","0","2","4">>), "bodyText", <<"B","o","d","y">>),
   With(With(RawRecord("url", "seotitle"), "seendate", <<"2","0","2","4">>),
        "snippet", <<"S","n","i","p">>),
   With(With(RawRecord("url", "title"), "published", <<"2","0","2","4">>),
        "description", <<"D","e","s","c">>),
   With(With(NoFields, "url", << >>), "title", << >>),
   NullRecord}

RawRecords == {RawRecord(u, t) : u \in UrlFields, t \in TitleFields} \cup FullRecords

\* what the route passes: an array of records, or, were a fetch to resolve
\* to something else, no array
RawLists ==
  {[isArray |-> TRUE, records |-> r] : r \in UNION {[1..n -> RawRecords] : n \in 0..MaxRaw}}
    \cup {[isArray |-> FALSE, records |-> << >>]}

\* the three sources, and a name normalizeArticles does not know
SourceNames == {"guardian", "gdelt", "currents", "reuters"}

NormalizeInit ==
  /\ rawArticles \in RawLists
  /\ rawSource \in SourceNames
  /\ normalized = Returned(<< >>) /\ npc = "call"
  /\ OnlyNormalize

CallNormalizeArticles ==
  /\ npc = "call"
  /\ normalized' = normalizeArticles(rawArticles, rawSource)
  /\ npc' = "done"
  /\ UNCHANGED <<rawArticles, rawSource, notNormalize>>

NormalizeNext == CallNormalizeArticles

SpecNormalize == NormalizeInit /\ [][NormalizeNext]_vars

(***************************************************************************)
(* SpecLocation: the location service of the browser.  localStorage        *)
(* outlives a page, the lookup a page started does not: its callbacks go   *)
(* with the page.  "null" is what getItem returns for a key that is not    *)
(* set.                                                                    *)
(***************************************************************************)
\* the page loads of one behaviour
MaxLoads == 3

\* what the user selects and what the reverse geocoding answers
Countries == {"US", "FR", "DE", "GB", "JP", "IN"}

LocationInit ==
  /\ storage = [selectedCountry |-> "null", autoDetected |-> "null",
                detectionAttempted |-> "null"]
  /\ lookup = "none" /\ loads = 0
  /\ geolocation \in BOOLEAN
  /\ OnlyLocation

\* lines 47-70: detectCountry up to the call of getCurrentPosition; the
\* result is whether a lookup is now under way
detectCountry ==
  IF ~geolocation THEN "none"
  ELSE IF storage.selectedCountry # "null" /\ storage.detectionAttempted = "true"
       THEN "none"
  ELSE "locating"

\* lines 157-163 and 175-180: a page is loaded and init runs
LoadPage ==
  /\ loads < MaxLoads
  /\ loads' = loads + 1
  /\ lookup' = IF storage.detectionAttempted # "true" THEN detectCountry ELSE "none"
  /\ UNCHANGED <<storage, geolocation, notLocation>>

\* lines 71-73: the position arrives and the reverse geocoding is asked
PositionFound ==
  /\ lookup = "locating"
  /\ lookup' = "geocoding"
  /\ UNCHANGED <<storage, loads, geolocation, notLocation>>

\* lines 97-107: no position (refused, unavailable, or the 10 s are over)
PositionError ==
  /\ lookup = "locating"
  /\ storage' = [storage EXCEPT !.detectionAttempted = "true"]
  /\ lookup' = "none"
  /\ UNCHANGED <<loads, geolocation, notLocation>>

\* lines 17-42 and 75-95: getCountryFromCoordinates answers a country code
\* or null
GeocodeAnswers(countryCode) ==
  /\ lookup = "geocoding"
  /\ storage' = IF countryCode # "null"
                THEN [selectedCountry |-> countryCode, autoDetected |-> "true",
                      detectionAttempted |-> "true"]
                ELSE [storage EXCEPT !.detectionAttempted = "true"]
  /\ lookup' = "none"
  /\ UNCHANGED <<loads, geolocation, notLocation>>

\* lines 127-138, called by the country dropdown of the page
SetSelectedCountry(countryCode) ==
  /\ loads > 0
  /\ storage' = IF countryCode # ""
                THEN [storage EXCEPT !.selectedCountry = countryCode,
                                     !.autoDetected = "false"]
                ELSE storage
  /\ UNCHANGED <<lookup, loads, geolocation, notLocation>>

\* lines 150-154, called by the dropdown when no country is chosen
ClearCountry ==
  /\ loads > 0
  /\ storage' = [selectedCountry |-> "null", autoDetected |-> "null",
                 detectionAttempted |-> "null"]
  /\ UNCHANGED <<lookup, loads, geolocation, notLocation>>

LocationNext ==
  \/ LoadPage
  \/ PositionFound
  \/ PositionError
  \/ \E countryCode \in Countries \cup {"null"} : GeocodeAnswers(countryCode)
  \/ \E countryCode \in Countries \cup {""} : SetSelectedCountry(countryCode)
  \/ ClearCountry

SpecLocation == LocationInit /\ [][LocationNext]_vars
(***************************************************************************)
(* Properties                                                              *)
(***************************************************************************)
\* the pool positions held by the groups gs, as a set of <<group, index>>
Slots(gs) == {<<g, k>> : g \in 1..Len(gs), k \in 1..MaxPool + 1} \cap
             {s \in (1..Len(gs)) \X (1..MaxPool + 1) : s[2] <= Len(gs[s[1]].articles)}

RECURSIVE SumSizes(_)
SumSizes(gs) == IF gs = << >> THEN 0 ELSE Len(Head(gs).articles) + SumSizes(Tail(gs))

\* C1: when groupSimilarArticles returns, every article of the pool is in
\* exactly one group (none lost, none twice) and the group sizes add up to
\* the length of the pool.
C1_Partition ==
  gpc = "done" =>
    /\ \A p \in 1..Len(articles) :
         Cardinality({s \in Slots(groups) : groups[s[1]].articles[s[2]] = p}) = 1
    /\ SumSizes(groups) = Len(articles)

\* a call that returned at least two groups, one of them with several articles
C1_Witness ==
  /\ gpc = "done"
  /\ Len(groups) >= 2
  /\ Len(articles) >= 3
  /\ \E g \in 1..Len(groups) : Len(groups[g].articles) >= 2

Placed == gpc = "loop" /\ i >= 1

\* the groups as they were before the article at position p was placed
Previous(gs, p) ==
  SelectSeq([g \in 1..Len(gs) |->
               IF gs[g].articles[Len(gs[g].articles)] = p
               THEN [gs[g] EXCEPT !.articles = SubSeq(@, 1, Len(@) - 1)]
               ELSE gs[g]],
            LAMBDA group : group.articles # << >>)

\* the similarity of the article at position p and the representative of
\* group g of gs
ToRepresentative(gs, p, g) == calculateSimilarity(articles[p], articles[gs[g].articles[1]])

\* the groups of gs whose representative reaches the threshold with the
\* article at position p, and those of highest similarity among them
Reaching(gs, p) ==
  {g \in 1..Len(gs) : FracGE(ToRepresentative(gs, p, g), Threshold(similarityThreshold))}
Top(gs, p) ==
  {g \in Reaching(gs, p) :
     \A h \in Reaching(gs, p) : FracGE(ToRepresentative(gs, p, g), ToRepresentative(gs, p, h))}

\* gs after the article at position p has joined group g, or opened a group
Joined(gs, p, g) == [gs EXCEPT ![g].articles = Append(@, p)]
Opened(gs, p) == Append(gs, [groupId |-> Len(gs) + 1, articles |-> <<p>>])

\* C23: every article placed has joined a group of highest similarity among
\* the groups whose representative reaches the threshold with it, when there
\* is one, and has opened a new group of its own only when there is none;
\* for every threshold, 0 included
C23_JoinsWhenReached ==
  Placed =>
    IF Reaching(Previous(groups, i), i) # {}
    THEN \E g \in Top(Previous(groups, i), i) : groups = Joined(Previous(groups, i), i, g)
    ELSE groups = Opened(Previous(groups, i), i)

\* the earliest of a set of groups
Earliest(gset) == CHOOSE g \in gset : \A h \in gset : g <= h

StartOf(gs, hs, g) ==
  /\ hs[g].groupId = gs[g].groupId
  /\ Len(hs[g].articles) >= Len(gs[g].articles)
  /\ SubSeq(hs[g].articles, 1, Len(gs[g].articles)) = gs[g].articles

\* one iteration of the loop leaves every group in its place with its
\* articles as they were, up to one article appended at the end of one group
\* or one new group of one article after the others
GrowsByAppending ==
  (gpc = "loop" /\ gpc' = "loop") =>
    /\ Len(groups') \in {Len(groups), Len(groups) + 1}
    /\ \A g \in 1..Len(groups) : StartOf(groups, groups', g)
    /\ Len(groups') = Len(groups) + 1 =>
         /\ Len(groups'[Len(groups')].articles) = 1
         /\ \A g \in 1..Len(groups) : groups'[g] = groups[g]
    /\ Cardinality({g \in 1..Len(groups) : groups'[g] # groups[g]}) <= 1
    /\ \A g \in 1..Len(groups) :
         Len(groups'[g].articles) <= Len(groups[g].articles) + 1

\* the final sort moves whole groups only
SortKeepsGroups ==
  (gpc = "loop" /\ gpc' = "done") =>
    /\ Len(groups') = Len(groups)
    /\ \A g \in 1..Len(groups) :
         Cardinality({h \in 1..Len(groups) : groups'[h] = groups[g]}) = 1

\* C25: during the pass a group only grows by an article appended at its
\* end: its first article stays, no article leaves a group or moves to
\* another, and no two groups are merged and none is split; the sort at the
\* end moves whole groups
C25_GrowsByAppending == [][GrowsByAppending /\ SortKeepsGroups]_vars

\* the pass has two groups, one of them with an article appended
C25_Witness ==
  /\ gpc = "loop" /\ Len(groups) >= 2
  /\ \E g \in 1..Len(groups) : Len(groups[g].articles) >= 2

\* the pool with the articles at the positions of mask under another source
\* label
Relabelled(pool, mask) ==
  [k \in 1..Len(pool) |-> IF k \in mask THEN RelabelledId(pool[k]) ELSE pool[k]]

\* C27: groupSimilarArticles returns the same groups, with the same ids and
\* the same members in the same order, for every pool that differs from the
\* pool of the call in the source labels of its articles only
C27_SourceBlind ==
  gpc = "done" =>
    \A mask \in SUBSET (1..Len(articles)) :
      groupSimilarArticles(Relabelled(articles, mask), similarityThreshold) = groups

\* a group of the call holds two articles of one source that stay together
\* when one of them comes from another source
C27_Witness ==
  /\ gpc = "done"
  /\ Len(groups) >= 2
  /\ \E g \in 1..Len(groups) :
       /\ Len(groups[g].articles) >= 2
       /\ Article(articles[groups[g].articles[1]]).source =
            Article(articles[groups[g].articles[2]]).source
       /\ Article(Relabelled(articles, {groups[g].articles[1]})[groups[g].articles[1]]).source #
            Article(articles[groups[g].articles[2]]).source
       /\ groupSimilarArticles(Relabelled(articles, {groups[g].articles[1]}),
                               similarityThreshold) = groups

\* C7: for every pair of articles, parseable dates and URLs or not, the
\* score calculateSimilarity returns is in [0, 1] and is the Jaccard overlap
\* of the key terms plus 0.10 when both dates parse and are at most 7 days
\* apart plus 0.05 when both URLs parse to the same hostname, capped at 1.
C7_SimilarityBounds ==
  cpc = "done" =>
    LET a == Article(article1)
        b == Article(article2)
        jaccard == jaccardSimilarity(KeyTermsOf[article1], KeyTermsOf[article2])
        da == DateGetTime(a.publishedAt)
        db == DateGetTime(b.publishedAt)
        near == /\ ~da.nan /\ ~db.nan
                /\ da.v - db.v <= 7 * HoursPerDay /\ db.v - da.v <= 7 * HoursPerDay
        sameHost == UrlHostname(a.url) # << >> /\ UrlHostname(a.url) = UrlHostname(b.url)
        bonus == (IF near THEN 10 ELSE 0) + (IF sameHost THEN 5 ELSE 0)
        sum == <<100 * jaccard[1] + bonus * jaccard[2], 100 * jaccard[2]>>
    IN /\ score[2] > 0
       /\ FracGE(score, <<0, 1>>)
       /\ FracGE(<<1, 1>>, score)
       /\ IF FracGE(sum, <<1, 1>>)
          THEN FracGE(score, <<1, 1>>)
          ELSE FracGE(score, sum) /\ FracGE(sum, score)

\* a scored pair with common key terms in which one article has a date that
\* does not parse and the other a URL that does not parse
C7_Witness ==
  /\ cpc = "done"
  /\ Article(article1).publishedAt # ""
  /\ DateGetTime(Article(article1).publishedAt).nan
  /\ UrlHostname(Article(article2).url) = << >>
  /\ score[1] > 0

\* C10: for every title and description and every non-empty summary, the
\* title generateNeutralTitle returns matches none of the generic patterns
\* ('news story', 'story 1', ..., 'story from', or 'story <number>').
C10_NeverGeneric ==
  (tpc = "done" /\ summary # << >>) => ~matchesGenericPattern(neutralTitle)


\* the fields of a GroupSummary
GroupSummaryFields ==
  {"groupId", "groupTitle", "summary", "detailedComparison", "simpleComparison", "differences"}

\* C8: for every group (no article, one, several) and every outcome of the
\* generation service (no API key, failed request, unparseable or incomplete
\* answer), summarizeArticleGroup does not reject: it resolves to an object
\* with groupId, groupTitle, summary, detailedComparison, simpleComparison and
\* differences.
C8_NeverRejects ==
  spc = "settled" =>
    /\ promise.status = "fulfilled"
    /\ DOMAIN promise.value = GroupSummaryFields

\* a call in which the body of the outer try threw (an article without a
\* source) and the catch returned the fallback summary
C8_Witness ==
  /\ spc = "settled"
  /\ Len(callGroup.articles) >= 2
  /\ \E k \in 1..Len(callGroup.articles) : Article(callGroup.articles[k]).source = Undefined
  /\ promise.status = "fulfilled"
  /\ promise.value = fallbackSummary(callGroup)

\* the call reached the generation service: an API key, two articles or
\* more, each with a source
ServiceCalled ==
  /\ spc = "settled" /\ hasApiKey
  /\ Len(callGroup.articles) >= 2
  /\ \A k \in 1..Len(callGroup.articles) : Article(callGroup.articles[k]).source # Undefined

DefinedSources(ids) == {Article(ids[k]).source : k \in 1..Len(ids)}

\* C11: when the request to the generation service fails for a group of two
\* distinct sources, the call resolves to a summary that is not empty and
\* holds the names of both sources, with a groupTitle of at least 10
\* characters that matches no generic pattern
C11_FallbackNamesSources ==
  (/\ ServiceCalled /\ answer.kind = "error"
   /\ Cardinality(DefinedSources(callGroup.articles)) = 2) =>
    /\ promise.status = "fulfilled"
    /\ promise.value.summary # << >>
    /\ \A s \in DefinedSources(callGroup.articles) : includes(promise.value.summary, nameMap(s))
    /\ Len(promise.value.groupTitle) >= 10
    /\ ~matchesGenericPattern(promise.value.groupTitle)

\* the parsed answer has the five fields, each of its type
Conforming(parsed) ==
  /\ parsed.groupTitle.type = "string"
  /\ parsed.summary.type = "string"
  /\ parsed.detailedComparison.type = "string"
  /\ parsed.simpleComparison.type = "string"
  /\ parsed.differences.type = "array"

NonConforming(llm) ==
  \/ llm.kind \in {"noChoices", "text", "fencedText", "null"}
  \/ llm.kind \in {"json", "fenced"} /\ ~Conforming(llm.parsed)

\* C12: when the answer of the generation service is no object with the five
\* fields (text that does not parse, or JSON with a field missing or of the
\* wrong type), the call resolves to what generateBasicSummary returns
C12_NonConformingFallsBack ==
  (ServiceCalled /\ NonConforming(answer)) =>
    /\ promise.status = "fulfilled"
    /\ promise.value = generateBasicSummary(callGroup)

(***************************************************************************)
(* GET /aggregate                                                          *)
(***************************************************************************)
SourcesOf(ids) == {Article(ids[k]).source : k \in 1..Len(ids)}

MultiSource(gs) == \A g \in 1..Len(gs) : Cardinality(SourcesOf(gs[g].articles)) >= 2

Paginated == rpc = "responded" /\ "pagination" \in DOMAIN response

\* C3: every group that passed the filter, every group handed to synthesis,
\* every synthesized group and every group of the response holds articles of
\* at least 2 distinct sources
C3_MultiSource ==
  /\ MultiSource(filteredGroups)
  /\ rpc = "summarizing" => MultiSource(batchAt(filteredGroups, batchIndex))
  /\ MultiSource(summarizedGroups)
  /\ rpc = "responded" => MultiSource(response.groups)

\* a group of two GDELT articles was dropped, and the response has a group
C3_Witness ==
  /\ rpc = "responded"
  /\ Len(response.groups) >= 1
  /\ \E g \in 1..Len(allGroups) :
       /\ Len(allGroups[g].articles) >= 2
       /\ Cardinality(SourcesOf(allGroups[g].articles)) = 1
       /\ \A f \in 1..Len(filteredGroups) : filteredGroups[f].groupId # allGroups[g].groupId

\* C4: every response carries at most 9 groups, and a response with
\* pagination reports totalGroups, the number of groups that passed the
\* filter, and totalPages = max(1, ceil(totalGroups / 9)), that is the least
\* number of pages of 9 that hold totalGroups groups, and at least 1
C4_PageBound ==
  rpc = "responded" =>
    /\ Len(response.groups) <= 9
    /\ "pagination" \in DOMAIN response =>
         /\ response.pagination.totalGroups = Len(filteredGroups)
         /\ response.pagination.totalPages >= 1
         /\ response.pagination.totalPages * 9 >= response.pagination.totalGroups
         /\ response.pagination.totalPages > 1 =>
              (response.pagination.totalPages - 1) * 9 < response.pagination.totalGroups

\* 25 groups in 3 pages, 9 of them returned
C4_Witness ==
  /\ Paginated
  /\ Len(filteredGroups) = 25
  /\ response.pagination.totalPages = 3
  /\ Len(response.groups) = 9

\* C5: when the requested page is an integer, currentPage is an integer of
\* 1..totalPages: 1 for a page below 1, totalPages for a page above it
C5_PageClamped ==
  (Paginated /\ ~pageNum.nan) =>
    /\ ~response.pagination.currentPage.nan
    /\ response.pagination.currentPage.v >= 1
    /\ response.pagination.currentPage.v <= response.pagination.totalPages
    /\ pageNum.v < 1 => response.pagination.currentPage.v = 1
    /\ pageNum.v > response.pagination.totalPages =>
         response.pagination.currentPage.v = response.pagination.totalPages

\* page 3 of 2 pages is served as page 2
C5_Witness ==
  /\ Paginated
  /\ pageNum = Num(3)
  /\ response.pagination.totalPages = 2
  /\ response.pagination.currentPage = Num(2)

\* C6: for a page p of 1..totalPages, currentPage is p and the groups
\* returned are the synthesized groups at the 0-based positions (p-1)*9 to
\* min(p*9, n) - 1, in that order
C6_PageSlice ==
  (/\ Paginated /\ ~pageNum.nan
   /\ pageNum.v >= 1 /\ pageNum.v <= response.pagination.totalPages) =>
    /\ response.pagination.currentPage = pageNum
    /\ Len(response.groups) =
         Min(pageNum.v * 9, Len(summarizedGroups)) - (pageNum.v - 1) * 9
    /\ \A k \in 1..Len(response.groups) :
         response.groups[k] = summarizedGroups[(pageNum.v - 1) * 9 + k]

\* 25 groups, page 2: the groups at the 0-based positions 9..17, 3 pages
C6_Witness ==
  /\ Paginated
  /\ Len(summarizedGroups) = 25
  /\ pageNum = Num(2)
  /\ response.pagination.totalPages = 3
  /\ response.pagination.currentPage = Num(2)
  /\ response.groups = SubSeq(summarizedGroups, 10, 18)

\* C9: the groupTitle of every group of the response has at least 10
\* characters and matches none of the generic patterns
C9_TitlesNeverGeneric ==
  rpc = "responded" =>
    \A g \in 1..Len(response.groups) :
      /\ Len(response.groups[g].groupTitle) >= 10
      /\ ~matchesGenericPattern(response.groups[g].groupTitle)

\* C13: when the generation service fails for the groups of a request, the
\* response is a success with a fallback summary for every group, and its
\* warnings record the failure
C13_GenerationFailureWarned ==
  (/\ rpc = "responded" /\ hasApiKey /\ answer.kind = "error"
   /\ filteredGroups # << >>) =>
    /\ response.status = 200
    /\ \A g \in 1..Len(summarizedGroups) : summarizedGroups[g].summary # << >>
    /\ Len(response.warnings) > 0

\* the calls of summarizeArticleGroup that have not settled
InFlight ==
  IF rpc = "summarizing" THEN {k \in 1..Len(summaries) : summaries[k] = Pending} ELSE {}

\* the calls of a batch are issued in this step
StartsBatch == rpc' = "summarizing" /\ (rpc # "summarizing" \/ batchIndex' # batchIndex)

\* C14: at most 3 calls of summarizeArticleGroup are in flight at any time,
\* and the calls of a batch are issued only when every call of the batch
\* before it has settled
C14_BatchesOfThree ==
  /\ [](Cardinality(InFlight) <= 3)
  /\ [][StartsBatch => InFlight = {}]_vars

\* the second batch of a request with at least 6 groups is in flight
C14_Witness ==
  /\ rpc = "summarizing" /\ batchIndex = 3
  /\ Len(summarizedGroups) = 3
  /\ Cardinality(InFlight) = 3

\* the warning of line 254 for a group
failedToSummarize(group) == TxtFailedToSummarizeGroup \o toDecimal(group.groupId)

\* the results of a batch are collected in this step: every rejected call
\* has its group in the output, with a summary, a title and its articles,
\* and a warning that names the group
CollectsRejected ==
  (rpc = "summarizing" /\ batchIndex' # batchIndex) =>
    /\ Len(summarizedGroups') = Len(summarizedGroups) + Len(summaries)
    /\ \A k \in 1..Len(summaries) :
         summaries[k].status = "rejected" =>
           /\ summarizedGroups'[batchIndex + k].groupId = filteredGroups[batchIndex + k].groupId
           /\ summarizedGroups'[batchIndex + k].articles = filteredGroups[batchIndex + k].articles
           /\ summarizedGroups'[batchIndex + k].summary # << >>
           /\ summarizedGroups'[batchIndex + k].groupTitle # << >>
           /\ failedToSummarize(filteredGroups[batchIndex + k]) \in Range(warnings')

\* what was collected stays: the groups, and the warnings up to the response
KeepsCollected ==
  /\ Len(summarizedGroups') >= Len(summarizedGroups)
  /\ SubSeq(summarizedGroups', 1, Len(summarizedGroups)) = summarizedGroups
  /\ rpc = "summarizing" =>
       /\ Len(warnings') >= Len(warnings)
       /\ SubSeq(warnings', 1, Len(warnings)) = warnings

\* C15: when a call of summarizeArticleGroup rejects, the other calls of its
\* batch and the later batches still settle and are collected: the response
\* is built from one synthesized group for every group that passed the
\* filter, the group of the rejected call among them with a fallback summary,
\* a title and its articles, and the warnings name its groupId
C15_RejectionIsolated ==
  /\ [][CollectsRejected /\ KeepsCollected]_vars
  /\ []((rpc = "responded" /\ filteredGroups # << >>) =>
          /\ Len(summarizedGroups) = Len(filteredGroups)
          /\ \A g \in 1..Len(filteredGroups) :
               summarizedGroups[g].groupId = filteredGroups[g].groupId
          /\ response.status = 200
          /\ response.warnings = warnings)

\* a call of the first batch was rejected, and the request has answered with
\* the 4 groups of its two batches
C15_Witness ==
  /\ rpc = "responded"
  /\ Len(filteredGroups) = 4 /\ Len(summarizedGroups) = 4
  /\ failedToSummarize(filteredGroups[2]) \in Range(response.warnings)
  /\ failedToSummarize(filteredGroups[1]) \notin Range(response.warnings)
  /\ summarizedGroups[2].articles = filteredGroups[2].articles
  /\ summarizedGroups[2].summary # << >>

\* the articles of the providers whose request succeeded
ReturnedBy(provider) == IF outcomes[provider] = "ok" THEN providers[provider] ELSE << >>

C17_ProviderFailureWarned ==
  rpc = "responded" =>
    \A provider \in DOMAIN outcomes :
      outcomes[provider] \in {"networkError", "noKey", "malformed"} =>
        \E w \in Range(response.warnings) : OccursAt(w, apiName(provider), 1)

\* C18: the promise of every fetch function is fulfilled, never rejected,
\* and when the request to the provider did not succeed its value is the
\* empty list
C18_FetchNeverRejects ==
  \A provider \in DOMAIN fetches :
    fetches[provider] # Pending =>
      /\ fetches[provider].status = "fulfilled"
      /\ outcomes[provider] # "ok" => fetches[provider].value = << >>

\* C19: every request is answered in the end, also when a provider or the
\* generation service never answers
C19_EventuallyResponds == <>(rpc = "responded")

\* C20: when the pool of the three providers is empty, the response is a
\* success with no group and with at least one warning, and neither
\* groupSimilarArticles nor summarizeArticleGroup has run
C20_EmptyPool ==
  (/\ rpc = "responded" /\ FetchesSettled
   /\ combine(resultsOf(fetches)) = << >>) =>
    /\ response.status = 200
    /\ response.groups = << >>
    /\ Len(response.warnings) > 0
    /\ GrouperIdle /\ allGroups = << >> /\ filteredGroups = << >>
    /\ summaries = << >> /\ summarizedGroups = << >>

\* no provider has an article and none failed: the one warning is that no
\* article was found
C20_Witness ==
  /\ rpc = "responded"
  /\ outcomes = AllOk
  /\ combine(providers) = << >>
  /\ response.groups = << >>
  /\ response.warnings = <<TxtNoArticlesFound>>

\* the titles of the articles of a group, as the summary of a rejected call
\* gives them
TitlesOf(group) ==
  join(SelectSeq([k \in 1..Len(group.articles) |-> Article(group.articles[k]).title],
                 LAMBDA t : t # << >>),
       <<";", " ">>)

\* the results of a batch are collected in this step: the group pushed at
\* the position of a filtered group carries the id, the summary and the
\* differences of the call for that group when it was fulfilled and the
\* titles of the group itself when it was rejected, and the articles of the
\* group in both cases
CollectsOwn ==
  (rpc = "summarizing" /\ batchIndex' # batchIndex) =>
    \A k \in 1..Len(summaries) :
      /\ summarizedGroups'[batchIndex + k].articles = filteredGroups[batchIndex + k].articles
      /\ IF summaries[k].status = "fulfilled"
         THEN /\ summarizedGroups'[batchIndex + k].groupId = summaries[k].value.groupId
              /\ summarizedGroups'[batchIndex + k].summary =
                   orElse(summaries[k].value.summary, TxtSummaryNotAvailable)
              /\ summarizedGroups'[batchIndex + k].differences = summaries[k].value.differences
         ELSE /\ summarizedGroups'[batchIndex + k].groupId = filteredGroups[batchIndex + k].groupId
              /\ summarizedGroups'[batchIndex + k].summary =
                   orElse(TitlesOf(filteredGroups[batchIndex + k]), TxtSummaryUnavailable)
              /\ summarizedGroups'[batchIndex + k].differences = << >>

\* the synthesized groups are the filtered groups of the batches collected
\* so far, in the order of the filtered list and with their own articles,
\* and a call that has settled holds the summary of its own group
InRankedOrder ==
  rpc \in {"summarizing", "responded"} =>
    /\ Len(summarizedGroups) <= Len(filteredGroups)
    /\ rpc = "summarizing" =>
         /\ Len(summarizedGroups) = batchIndex
         /\ \A k \in 1..Len(summaries) :
              summaries[k].status = "fulfilled" =>
                summaries[k].value.groupId = filteredGroups[batchIndex + k].groupId
    /\ rpc = "responded" => Len(summarizedGroups) = Len(filteredGroups)
    /\ \A g \in 1..Len(summarizedGroups) :
         /\ summarizedGroups[g].groupId = filteredGroups[g].groupId
         /\ summarizedGroups[g].articles = filteredGroups[g].articles

\* C28: in whatever order the calls of a batch settle, fulfilled or
\* rejected, the synthesized groups are the filtered groups, each once and
\* in the order of the filtered list, and every one of them carries the
\* result of the call for its own group and the articles of that group
C28_OrderKept == [](InRankedOrder) /\ [][CollectsOwn]_vars

\* the last call of the second batch has settled before the first, which
\* is still pending, and the first batch was collected in order
C28_Witness ==
  /\ rpc = "summarizing" /\ batchIndex = 3
  /\ Len(summaries) = 3
  /\ summaries[1] = Pending /\ summaries[3] # Pending
  /\ \A g \in 1..3 : summarizedGroups[g].groupId = filteredGroups[g].groupId

\* C29: when the page parameter is present and does not parse as an
\* integer, currentPage is an integer of 1..totalPages and the groups
\* returned are those of that page
C29_UnparseablePage ==
  (Paginated /\ page # << >> /\ pageNum.nan) =>
    /\ ~response.pagination.currentPage.nan
    /\ response.pagination.currentPage.v >= 1
    /\ response.pagination.currentPage.v <= response.pagination.totalPages
    /\ response.groups =
         SubSeq(summarizedGroups, (response.pagination.currentPage.v - 1) * 9 + 1,
                Min(response.pagination.currentPage.v * 9, Len(summarizedGroups)))

\* the times of the publishedAt of the members of a group that parse
Parseable(group) ==
  {DateGetTime(Article(group.articles[k]).publishedAt).v :
     k \in {m \in 1..Len(group.articles) :
              ~DateGetTime(Article(group.articles[m]).publishedAt).nan}}

\* the greatest of a non-empty set of numbers
Greatest(set) == CHOOSE d \in set : \A e \in set : d >= e

\* C26 as stated: of two filtered groups with a parseable date the one with
\* the more recent latest date comes first, and a group without a parseable
\* date comes after every group that has one
C26_Original ==
  rpc \in {"summarizing", "responded"} =>
    \A g, h \in 1..Len(filteredGroups) :
      /\ (/\ Parseable(filteredGroups[g]) # {} /\ Parseable(filteredGroups[h]) # {}
          /\ Greatest(Parseable(filteredGroups[g])) > Greatest(Parseable(filteredGroups[h])))
           => g < h
      /\ (Parseable(filteredGroups[g]) # {} /\ Parseable(filteredGroups[h]) = {}) => g < h

\* the times after 1970-01-01T00:00:00Z among them, and the latest of these,
\* 0 when there is none
AfterEpoch(group) == {d \in Parseable(group) : d > 0}
LatestAfterEpoch(group) ==
  IF AfterEpoch(group) = {} THEN 0 ELSE Greatest(AfterEpoch(group))

\* where the filtered group at position g was among the groups that
\* groupSimilarArticles returned
ReturnedAt(g) ==
  CHOOSE a \in 1..Len(allGroups) : allGroups[a].groupId = filteredGroups[g].groupId

\* C26 amended: the filtered groups are ordered by the latest publishedAt of
\* their members that parses to a time after 1970-01-01T00:00:00Z, most
\* recent first, a group without such a date counting as 0 and so coming
\* after every group that has one; groups of the same latest time stay in
\* the order in which groupSimilarArticles returned them.  The list is the
\* same from the first batch to the response.
C26_LatestFirst ==
  /\ [](rpc = "responded" =>
          \A g, h \in 1..Len(filteredGroups) :
            /\ LatestAfterEpoch(filteredGroups[g]) > LatestAfterEpoch(filteredGroups[h])
                 => g < h
            /\ (/\ LatestAfterEpoch(filteredGroups[g]) = LatestAfterEpoch(filteredGroups[h])
                /\ ReturnedAt(g) < ReturnedAt(h)) => g < h)
  /\ [][rpc = "summarizing" => filteredGroups' = filteredGroups]_vars

\* a group of 2024 comes first, then a group without any date, then a group
\* dated at the epoch
C26_Witness ==
  /\ rpc = "responded"
  /\ Len(filteredGroups) = 3
  /\ LatestAfterEpoch(filteredGroups[1]) > 0
  /\ Parseable(filteredGroups[2]) = {}
  /\ Parseable(filteredGroups[3]) = {0}

(***************************************************************************)
(* normalizeArticles                                                       *)
(***************************************************************************)
\* the call has returned an array
NormalizeReturned == npc = "done" /\ ~normalized.threw

\* the property names under which the filter of normalizeArticles looks
\* for a url, and those under which it looks for a title
UrlNames == {"webUrl", "url", "articleurl", "shareurl"}
TitleNames == {"webTitle", "title", "seotitle"}

\* the record has no truthy value under any of the names
Lacks(raw, names) == \A f \in names : ~truthy(raw.get[f])

\* the records of the call that have a url and a title under a recognised name
Recognised ==
  {k \in 1..Len(rawArticles.records) :
     /\ ~Lacks(rawArticles.records[k], UrlNames)
     /\ ~Lacks(rawArticles.records[k], TitleNames)}

\* C21: every article normalizeArticles returns has a non-empty url and a
\* non-empty title, and comes from a record that has a url and a title under
\* a recognised name: the url is that record's, and no more articles are
\* returned than there are such records
C21_UrlAndTitle ==
  NormalizeReturned =>
    /\ \A k \in 1..Len(normalized.value) :
         /\ normalized.value[k].url # << >> /\ normalized.value[k].title # << >>
         /\ \E r \in Recognised : \E f \in UrlNames :
              rawArticles.records[r].get[f] = Str(normalized.value[k].url)
    /\ Len(normalized.value) <= Cardinality(Recognised)

\* of a record without a title and a record with url and title, only the
\* second is returned
C21_Witness ==
  /\ NormalizeReturned
  /\ rawSource = "gdelt"
  /\ Len(rawArticles.records) = 2
  /\ rawArticles.records[1] = RawRecord("url", "")
  /\ rawArticles.records[2] = RawRecord("url", "title")
  /\ Len(normalized.value) = 1
  /\ normalized.value[1].title = RawTitle /\ normalized.value[1].url = RawUrl

\* C22: no article normalizeArticles returns has the title 'No title'
C22_NoPlaceholderTitle ==
  NormalizeReturned =>
    \A k \in 1..Len(normalized.value) : normalized.value[k].title # TxtNoTitle

(***************************************************************************)
(* location service                                                        *)
(***************************************************************************)
\* the stored country is one the user selected with setSelectedCountry
ManuallySelected == storage.selectedCountry # "null" /\ storage.autoDetected = "false"

\* a step of the detection: a callback of getCurrentPosition
DetectionStep == lookup # "none" /\ lookup' # lookup /\ loads' = loads

\* C30: a step of the auto-detection leaves a manually selected country as
\* it is stored
C30_SelectionKept ==
  [][ManuallySelected /\ DetectionStep =>
       storage'.selectedCountry = storage.selectedCountry]_vars

\* a lookup is under way while the stored country is a manual selection
C30_Pending == ManuallySelected /\ lookup # "none"
====
